---- MODULE Spec2Model ----
(***************************************************************************)
(* The deterministic policy gate of text-ql (src/validation/policy_gate.py *)
(* and src/validation/schema_checker.py), the schema parser                *)
(* (src/schema/parser.py) and the pipeline of src/orchestrator/root.py.    *)
(*                                                                         *)
(* SQL text is a sequence of lexical atoms.  An atom is a TLA+ string that *)
(* stands for exactly the characters it spells: a single punctuation or    *)
(* whitespace character, a numeral (a run of digits), or a word (a run of  *)
(* letters, all upper-case or all lower-case).  The Python string is the   *)
(* concatenation of the atoms.  Every regular expression and string method *)
(* of the source is lifted to atoms: a character class becomes a set of    *)
(* atoms, \b becomes a change of word-class between neighbouring atoms,    *)
(* and a literal keyword becomes the atom that spells it.  The lexicon     *)
(* below is chosen so that the lifting is exact: no word or numeral of the *)
(* lexicon is the concatenation of other atoms, and the only atoms that    *)
(* begin with a keyword some pattern matches without a following boundary  *)
(* are listed in StrictPrefixes.                                           *)
(***************************************************************************)
EXTENDS Integers, Sequences, FiniteSets, TLC

(***************************************************************************)
(* Lexicon                                                                 *)
(***************************************************************************)

\* Characters str.strip()/str.rstrip() remove and \s matches.
WhiteSpace == {" ", "\n"}

\* Upper-case words of the lexicon with their str.lower() image.
LowerOf ==
    "SELECT" :> "select" @@ "WITH" :> "with" @@ "INSERT" :> "insert" @@
    "UPDATE" :> "update" @@ "DELETE" :> "delete" @@ "DROP" :> "drop" @@
    "TRUNCATE" :> "truncate" @@ "ALTER" :> "alter" @@ "CREATE" :> "create" @@
    "GRANT" :> "grant" @@ "REVOKE" :> "revoke" @@ "EXPLAIN" :> "explain" @@
    "EXEC" :> "exec" @@ "EXECUTE" :> "execute" @@ "MERGE" :> "merge" @@
    "UPSERT" :> "upsert" @@
    "FROM" :> "from" @@ "WHERE" :> "where" @@ "LIMIT" :> "limit" @@
    "JOIN" :> "join" @@ "INTO" :> "into" @@ "ORDER" :> "order" @@
    "GROUP" :> "group" @@ "BY" :> "by" @@ "HAVING" :> "having" @@
    "IN" :> "in" @@ "LIKE" :> "like" @@ "BETWEEN" :> "between" @@
    "IS" :> "is" @@ "AND" :> "and" @@ "OR" :> "or" @@ "NOT" :> "not" @@
    "NULL" :> "null" @@ "TRUE" :> "true" @@ "FALSE" :> "false" @@
    "AS" :> "as" @@ "DISTINCT" :> "distinct" @@ "ALL" :> "all" @@
    "COUNT" :> "count" @@ "ASC" :> "asc" @@
    "PLACEHOLDER" :> "placeholder" @@ "TABLE" :> "table" @@
    "COLUMN" :> "column" @@ "T" :> "t" @@ "USERS" :> "users" @@
    "ID" :> "id" @@ "NAME" :> "name" @@ "X" :> "x" @@
    "SERT" :> "sert" @@ "TO" :> "to"

UpperWords == DOMAIN LowerOf
LowerWords == {LowerOf[u] : u \in UpperWords}
UpperOf == [w \in LowerWords |-> CHOOSE u \in UpperWords : LowerOf[u] = w]

\* str.upper() and str.lower() of one atom.
Upper(a) == IF a \in LowerWords THEN UpperOf[a] ELSE a
Lower(a) == IF a \in UpperWords THEN LowerOf[a] ELSE a

\* Numerals of the lexicon: int() of the atom.
NumeralValue == "7" :> 7 @@ "50" :> 50 @@ "900" :> 900
\* Number of digits of the atom.
NumeralDigits == "7" :> 1 @@ "50" :> 2 @@ "900" :> 3
Digits == DOMAIN NumeralValue

\* [a-zA-Z_], [a-zA-Z0-9_] (= \w on this lexicon), [A-Z0-9_]
Letters == UpperWords \cup LowerWords \cup {"_"}
WordChars == Letters \cup Digits
UpperSnake == UpperWords \cup Digits \cup {"_"}

\* <<a, r>>: upper-case atom a spells "IN" followed by r, the only keyword
\* of PredicateKeywords that begins a longer atom of the lexicon.  The
\* remainders "SERT" and "TO" occur in no input text: they arise only when
\* a match ends inside "INSERT" or "INTO".
Remainders == {<<"INSERT", "SERT">>, <<"INTO", "TO">>}

\* <<a, k>>: atom a begins with keyword k and is longer than k.
StrictPrefixes ==
    {<<r[1], "IN">> : r \in Remainders} \cup {<<"EXECUTE", "EXEC">>}

\* str.startswith(k) for a single upper-cased atom.
HasPrefix(a, k) == a = k \/ <<a, k>> \in StrictPrefixes

(***************************************************************************)
(* Sequences of atoms                                                      *)
(***************************************************************************)

Min(S) == CHOOSE x \in S : \A y \in S : x <= y
Max(S) == CHOOSE x \in S : \A y \in S : x >= y

\* Index of the last atom of the longest run of atoms of C that starts at j
\* (j - 1 when s[j] is not in C): a greedy C* at position j.
RunEnd(s, j, C) ==
    LET stops == {k \in j..Len(s) : s[k] \notin C}
    IN  IF stops = {} THEN Len(s) ELSE Min(stops) - 1

UpperSeq(s) == [i \in 1..Len(s) |-> Upper(s[i])]
LowerSeq(s) == [i \in 1..Len(s) |-> Lower(s[i])]

\* str.rstrip(), str.strip()
RStrip(s) ==
    LET keep == {k \in 1..Len(s) : s[k] \notin WhiteSpace}
    IN  IF keep = {} THEN <<>> ELSE SubSeq(s, 1, Max(keep))
Strip(s) ==
    LET r == RStrip(s)
    IN  SubSeq(r, RunEnd(r, 1, WhiteSpace) + 1, Len(r))

\* \b before s[i] and after s[e], for word-class s[i] and s[e].
BoundaryBefore(s, i) == i = 1 \/ s[i - 1] \notin WordChars
BoundaryAfter(s, e) == e = Len(s) \/ s[e + 1] \notin WordChars

\* str.split(sep) for a one-character separator.
RECURSIVE Split(_, _)
Split(s, sep) ==
    LET at == {i \in 1..Len(s) : s[i] = sep}
    IN  IF at = {} THEN <<s>>
        ELSE <<SubSeq(s, 1, Min(at) - 1)>>
                 \o Split(SubSeq(s, Min(at) + 1, Len(s)), sep)

\* Python's int has no upper end: the numbers from MaxInt on are all held as
\* MaxInt, which lies above every max_limit, so that a comparison with
\* max_limit comes out as it does in the code.
MaxInt == 1000000

\* int() of a run of numerals, str() of a number that has a numeral.
RECURSIVE IntOf(_)
IntOf(run) ==
    IF run = <<>> THEN 0
    ELSE LET last == run[Len(run)]
             pow == IF NumeralDigits[last] = 1 THEN 10
                    ELSE IF NumeralDigits[last] = 2 THEN 100 ELSE 1000
         IN  Min({MaxInt,
                  IntOf(SubSeq(run, 1, Len(run) - 1)) * pow
                      + NumeralValue[last]})
StrOf(n) == CHOOSE a \in Digits : NumeralValue[a] = n

(***************************************************************************)
(* src/validation/policy_gate.py                                           *)
(***************************************************************************)

StatementType ==
    {"SELECT", "INSERT", "UPDATE", "DELETE", "DROP", "TRUNCATE", "ALTER",
     "CREATE", "GRANT", "REVOKE", "WITH", "UNKNOWN"}

\* The order in which classify_statement tests the prefixes.
ClassifyOrder ==
    <<"SELECT", "WITH", "INSERT", "UPDATE", "DELETE", "DROP", "TRUNCATE",
      "ALTER", "CREATE", "GRANT", "REVOKE">>

StartsWith(normalized, k) ==
    normalized # <<>> /\ HasPrefix(Head(normalized), k)

\* A classify_statement without strip(): normalized = sql.upper().
classify_statement_unstripped(sql) ==
    LET normalized == UpperSeq(sql)
        hits == {n \in 1..Len(ClassifyOrder) :
                    StartsWith(normalized, ClassifyOrder[n])}
    IN  IF hits = {} THEN "UNKNOWN" ELSE ClassifyOrder[Min(hits)]

classify_statement(sql) ==
    LET normalized == UpperSeq(Strip(sql))
        hits == {n \in 1..Len(ClassifyOrder) :
                    StartsWith(normalized, ClassifyOrder[n])}
    IN  IF hits = {} THEN "UNKNOWN" ELSE ClassifyOrder[Min(hits)]

is_read_only_statement(statement_type) ==
    statement_type \in {"SELECT", "WITH"}

\* re.sub(q + "[^" + q + "]*" + q, q + q, s): every leftmost pair of quotes q
\* with what lies between them becomes the two quotes alone.
RECURSIVE SubQuoted(_, _)
SubQuoted(s, q) ==
    LET opens == {i \in 1..Len(s) :
                     s[i] = q /\ \E j \in (i + 1)..Len(s) : s[j] = q}
    IN  IF opens = {} THEN s
        ELSE LET i == Min(opens)
                 j == Min({k \in (i + 1)..Len(s) : s[k] = q})
             IN  SubSeq(s, 1, i - 1) \o <<q, q>>
                     \o SubQuoted(SubSeq(s, j + 1, Len(s)), q)

NonBlank(p) == Strip(p) # <<>>

\* A count of the segments without the filter `if p.strip()`.
check_multiple_statements_counting_blank(sql) ==
    LET cleaned == SubQuoted(SubQuoted(sql, "'"), "\"")
    IN  Len(Split(cleaned, ";")) > 1

check_multiple_statements(sql) ==
    LET cleaned == SubQuoted(SubQuoted(sql, "'"), "\"")
        parts == SelectSeq(Split(cleaned, ";"), NonBlank)
    IN  Len(parts) > 1

\* A placeholder token "<" [A-Z][A-Z0-9_]* ">" starts at s[i]: index of its
\* closing ">" (0 when none starts there).
PlaceholderEnd(s, i) ==
    IF s[i] = "<" /\ i + 1 <= Len(s) /\ s[i + 1] \in UpperWords
    THEN LET e == RunEnd(s, i + 1, UpperSnake)
         IN  IF e + 1 <= Len(s) /\ s[e + 1] = ">" THEN e + 1 ELSE 0
    ELSE 0

\* re.findall(settings.placeholder_pattern, sql): the tokens, left to right.
RECURSIVE FindPlaceholders(_, _)
FindPlaceholders(s, from) ==
    LET starts == {i \in from..Len(s) : PlaceholderEnd(s, i) > 0}
    IN  IF starts = {} THEN <<>>
        ELSE LET i == Min(starts)
                 e == PlaceholderEnd(s, i)
             IN  <<SubSeq(s, i, e)>> \o FindPlaceholders(s, e + 1)

\* inner.lower().replace("_", " ")
PlaceholderWords(token) ==
    LET inner == SubSeq(token, 2, Len(token) - 1)
    IN  [i \in 1..Len(inner) |->
            IF inner[i] = "_" THEN " " ELSE Lower(inner[i])]

NotTableWord(a) == a # "table"
NotColumnWord(a) == a # "column"

\* The meaning string of one token: its fixed prefix and the words after it.
PlaceholderMeaning(token) ==
    LET words == PlaceholderWords(token)
    IN  IF \E i \in 1..Len(words) : words[i] = "table"
        THEN [prefix |-> "Table name for",
              words |-> Strip(SelectSeq(words, NotTableWord))]
        ELSE IF \E i \in 1..Len(words) : words[i] = "column"
        THEN [prefix |-> "Column name for",
              words |-> Strip(SelectSeq(words, NotColumnWord))]
        ELSE [prefix |-> "Value or identifier for", words |-> words]

\* The loop of detect_placeholders: skip a token already seen.
RECURSIVE DedupeTokens(_, _)
DedupeTokens(matches, seen) ==
    IF matches = <<>> THEN <<>>
    ELSE IF Head(matches) \in seen THEN DedupeTokens(Tail(matches), seen)
    ELSE <<[token |-> Head(matches),
            meaning |-> PlaceholderMeaning(Head(matches))]>>
             \o DedupeTokens(Tail(matches), seen \cup {Head(matches)})

\* A detect_placeholders without the `seen` set: one entry for each match.
detect_placeholders_keeping_duplicates(sql) ==
    LET matches == FindPlaceholders(sql, 1)
    IN  [n \in 1..Len(matches) |->
            [token |-> matches[n], meaning |-> PlaceholderMeaning(matches[n])]]

detect_placeholders(sql) == DedupeTokens(FindPlaceholders(sql, 1), {})

\* \bLIMIT\s+(\d+)\b with re.IGNORECASE matches at s[i]: the indices of the
\* first and last numeral of group 1 (<<0, 0>> when there is no match at i).
LimitMatch(s, i) ==
    IF Upper(s[i]) = "LIMIT" /\ BoundaryBefore(s, i)
       /\ i + 1 <= Len(s) /\ s[i + 1] \in WhiteSpace
    THEN LET w == RunEnd(s, i + 1, WhiteSpace)
             d == RunEnd(s, w + 1, Digits)
         IN  IF d >= w + 1 /\ BoundaryAfter(s, d)
             THEN <<w + 1, d>> ELSE <<0, 0>>
    ELSE <<0, 0>>

LimitStarts(s, from) == {i \in from..Len(s) : LimitMatch(s, i)[2] > 0}

\* re.sub(limit_pattern, f"LIMIT {max_limit}", sql, flags=re.IGNORECASE)
RECURSIVE SubLimits(_, _)
SubLimits(s, max_limit) ==
    IF LimitStarts(s, 1) = {} THEN s
    ELSE LET i == Min(LimitStarts(s, 1))
             e == LimitMatch(s, i)[2]
         IN  SubSeq(s, 1, i - 1) \o <<"LIMIT", " ", StrOf(max_limit)>>
                 \o SubLimits(SubSeq(s, e + 1, Len(s)), max_limit)

\* The clause joined to the word before it: f"LIMIT {max_limit}" without the
\* leading space.
LimitClauseJoined(max_limit) == <<"LIMIT", " ", StrOf(max_limit)>>

\* f" LIMIT {max_limit}": the clause enforce_limit appends.
LimitClause(max_limit) == <<" ", "LIMIT", " ", StrOf(max_limit)>>

\* An enforce_limit that also rewrites a LIMIT equal to max_limit.
enforce_limit_rewriting_equal(sql, max_limit, statement_type) ==
    IF ~is_read_only_statement(statement_type)
    THEN [sql |-> sql, modified |-> FALSE]
    ELSE IF LimitStarts(sql, 1) # {}
    THEN LET match == LimitMatch(sql, Min(LimitStarts(sql, 1)))
             current_limit == IntOf(SubSeq(sql, match[1], match[2]))
         IN  IF current_limit >= max_limit
             THEN [sql |-> SubLimits(sql, max_limit), modified |-> TRUE]
             ELSE [sql |-> sql, modified |-> FALSE]
    ELSE LET sql_stripped == RStrip(sql)
         IN  IF sql_stripped # <<>> /\ sql_stripped[Len(sql_stripped)] = ";"
             THEN [sql |-> SubSeq(sql_stripped, 1, Len(sql_stripped) - 1)
                              \o LimitClause(max_limit) \o <<";">>,
                   modified |-> TRUE]
             ELSE [sql |-> sql_stripped \o LimitClause(max_limit),
                   modified |-> TRUE]

\* An enforce_limit that does not look for a trailing semicolon: the clause
\* always goes to the end.
enforce_limit_after_semicolon(sql, max_limit, statement_type) ==
    IF ~is_read_only_statement(statement_type)
    THEN [sql |-> sql, modified |-> FALSE]
    ELSE IF LimitStarts(sql, 1) # {}
    THEN LET match == LimitMatch(sql, Min(LimitStarts(sql, 1)))
             current_limit == IntOf(SubSeq(sql, match[1], match[2]))
         IN  IF current_limit > max_limit
             THEN [sql |-> SubLimits(sql, max_limit), modified |-> TRUE]
             ELSE [sql |-> sql, modified |-> FALSE]
    ELSE [sql |-> RStrip(sql) \o LimitClause(max_limit), modified |-> TRUE]

enforce_limit(sql, max_limit, statement_type) ==
    IF ~is_read_only_statement(statement_type)
    THEN [sql |-> sql, modified |-> FALSE]
    ELSE IF LimitStarts(sql, 1) # {}
    THEN LET match == LimitMatch(sql, Min(LimitStarts(sql, 1)))
             current_limit == IntOf(SubSeq(sql, match[1], match[2]))
         IN  IF current_limit > max_limit
             THEN [sql |-> SubLimits(sql, max_limit), modified |-> TRUE]
             ELSE [sql |-> sql, modified |-> FALSE]
    ELSE LET sql_stripped == RStrip(sql)
         IN  IF sql_stripped # <<>> /\ sql_stripped[Len(sql_stripped)] = ";"
             THEN [sql |-> SubSeq(sql_stripped, 1, Len(sql_stripped) - 1)
                              \o LimitClause(max_limit) \o <<";">>,
                   modified |-> TRUE]
             ELSE [sql |-> sql_stripped \o LimitClause(max_limit),
                   modified |-> TRUE]

(***************************************************************************)
(* src/validation/schema_checker.py                                        *)
(***************************************************************************)

\* re.sub(r"<[A-Z][A-Z0-9_]*>", "PLACEHOLDER", cleaned)
RECURSIVE SubPlaceholders(_)
SubPlaceholders(s) ==
    LET starts == {i \in 1..Len(s) : PlaceholderEnd(s, i) > 0}
    IN  IF starts = {} THEN s
        ELSE LET i == Min(starts)
                 e == PlaceholderEnd(s, i)
             IN  SubSeq(s, 1, i - 1) \o <<"PLACEHOLDER">>
                     \o SubPlaceholders(SubSeq(s, e + 1, Len(s)))

\* ([a-zA-Z_][a-zA-Z0-9_]*) at s[j], for s[j] a letter: index of its last atom.
IdentEnd(s, j) == RunEnd(s, j, WordChars)
IdentName(s, j) == LowerSeq(SubSeq(s, j, IdentEnd(s, j)))

\* The keywords kws, each followed by \s+, match from s[i] on: the index
\* right after the last \s+ (0 when they do not match).
RECURSIVE AfterKeywords(_, _, _)
AfterKeywords(s, i, kws) ==
    IF kws = <<>> THEN i
    ELSE IF i + 1 <= Len(s) /\ Upper(s[i]) = Head(kws)
            /\ s[i + 1] \in WhiteSpace
    THEN AfterKeywords(s, RunEnd(s, i + 1, WhiteSpace) + 1, Tail(kws))
    ELSE 0

\* \bK1\s+...\s+([a-zA-Z_][a-zA-Z0-9_]*) with re.IGNORECASE matches at s[i]:
\* the index of the first atom of group 1 (0 when there is no match at i).
KeywordIdent(s, i, kws) ==
    IF BoundaryBefore(s, i)
    THEN LET j == AfterKeywords(s, i, kws)
         IN  IF j > 0 /\ j <= Len(s) /\ s[j] \in Letters THEN j ELSE 0
    ELSE 0

\* re.finditer of that pattern from s[from] on: the set of group-1 names,
\* lower-cased, of the successive non-overlapping matches.
RECURSIVE FindKeywordIdents(_, _, _)
FindKeywordIdents(s, from, kws) ==
    LET starts == {i \in from..Len(s) : KeywordIdent(s, i, kws) > 0}
    IN  IF starts = {} THEN {}
        ELSE LET j == KeywordIdent(s, Min(starts), kws)
             IN  {IdentName(s, j)}
                     \cup FindKeywordIdents(s, IdentEnd(s, j) + 1, kws)

\* \s+FROM\b matches right after s[q].
FromFollows(s, q) ==
    /\ q + 1 <= Len(s)
    /\ s[q + 1] \in WhiteSpace
    /\ LET r == RunEnd(s, q + 1, WhiteSpace) + 1
       IN  r <= Len(s) /\ Upper(s[r]) = "FROM" /\ BoundaryAfter(s, r)

\* \bSELECT\s+(.+?)\s+FROM\b with IGNORECASE | DOTALL matches at s[i]:
\* group 1 (<<>> when there is no match at i).  The first \s+ is greedy and
\* gives whitespace back only when no match exists otherwise; group 1 is
\* then a single whitespace character.
SelectClauseAt(s, i) ==
    IF Upper(s[i]) = "SELECT" /\ BoundaryBefore(s, i)
       /\ i + 1 <= Len(s) /\ s[i + 1] \in WhiteSpace
    THEN LET w == RunEnd(s, i + 1, WhiteSpace)
             ends == {q \in (w + 1)..Len(s) : FromFollows(s, q)}
         IN  IF ends # {} THEN SubSeq(s, w + 1, Min(ends))
             ELSE IF w - i >= 3 /\ FromFollows(s, w - 1)
             THEN <<s[w - 1]>>
             ELSE <<>>
    ELSE <<>>

\* The body of the loop over select_clause.split(","): the column one part
\* contributes (a set of at most one name).
SelectPartColumn(raw) ==
    LET part == Strip(raw)
    IN  IF part # <<>> /\ part[1] \in Letters
        THEN LET e1 == IdentEnd(part, 1)
             IN  IF e1 + 2 <= Len(part) /\ part[e1 + 1] = "."
                    /\ part[e1 + 2] \in Letters
                 THEN {IdentName(part, e1 + 2)}
                 ELSE IF part # <<"*">>
                         /\ UpperSeq(part) \notin {<<"DISTINCT">>, <<"ALL">>}
                 THEN {IdentName(part, 1)}
                 ELSE {}
        ELSE {}

SelectColumns(cleaned) ==
    LET starts == {i \in 1..Len(cleaned) : SelectClauseAt(cleaned, i) # <<>>}
    IN  IF starts = {} THEN {}
        ELSE LET parts == Split(SelectClauseAt(cleaned, Min(starts)), ",")
             IN  UNION {SelectPartColumn(parts[n]) : n \in 1..Len(parts)}

\* \bORDER\b | \bGROUP\b | \bLIMIT\b | \bHAVING\b | $ matches at s[t]
\* (t = Len(s) + 1 is the end of the text; $ also matches before a final
\* newline).
WhereStops(s, t) ==
    \/ t = Len(s) + 1
    \/ t = Len(s) /\ s[t] = "\n"
    \/ /\ t <= Len(s)
       /\ Upper(s[t]) \in {"ORDER", "GROUP", "LIMIT", "HAVING"}
       /\ BoundaryBefore(s, t) /\ BoundaryAfter(s, t)

\* \bWHERE\s+(.+?)(?:...) with IGNORECASE | DOTALL matches at s[i] with a
\* group 1 that does not start with whitespace: group 1 (<<>> otherwise; a
\* group 1 that is whitespace only yields no column).
WhereClauseAt(s, i) ==
    IF Upper(s[i]) = "WHERE" /\ BoundaryBefore(s, i)
       /\ i + 1 <= Len(s) /\ s[i + 1] \in WhiteSpace
    THEN LET p == RunEnd(s, i + 1, WhiteSpace) + 1
         IN  IF p <= Len(s)
             THEN SubSeq(s, p,
                         Min({t \in (p + 1)..(Len(s) + 1) : WhereStops(s, t)})
                             - 1)
             ELSE <<>>
    ELSE <<>>

\* ([a-zA-Z_][a-zA-Z0-9_]*)\s*[=<>!] matches at c[j]: index of the operator.
ComparisonAt(c, j) ==
    IF c[j] \in Letters
    THEN LET w == RunEnd(c, IdentEnd(c, j) + 1, WhiteSpace) + 1
         IN  IF w <= Len(c) /\ c[w] \in {"=", "<", ">", "!"} THEN w ELSE 0
    ELSE 0

NotColumnName == {<<"and">>, <<"or">>, <<"not">>, <<"null">>, <<"true">>,
                  <<"false">>}

RECURSIVE FindComparisons(_, _)
FindComparisons(c, from) ==
    LET starts == {j \in from..Len(c) : ComparisonAt(c, j) > 0}
    IN  IF starts = {} THEN {}
        ELSE LET j == Min(starts)
             IN  ({IdentName(c, j)} \ NotColumnName)
                     \cup FindComparisons(c, ComparisonAt(c, j) + 1)

PredicateKeywords == {"IN", "LIKE", "BETWEEN", "IS"}

\* ([a-zA-Z_][a-zA-Z0-9_]*)\s+(?:IN|LIKE|BETWEEN|IS) with IGNORECASE matches
\* at c[j]: index of the atom that begins with the keyword.
PredicateAt(c, j) ==
    IF c[j] \in Letters
    THEN LET e == IdentEnd(c, j)
             w == RunEnd(c, e + 1, WhiteSpace) + 1
         IN  IF w > e + 1 /\ w <= Len(c)
                /\ \E k \in PredicateKeywords : HasPrefix(Upper(c[w]), k)
             THEN w ELSE 0
    ELSE 0

\* What is left of the text after a match that ends inside the atom c[w]:
\* the rest of that atom followed by the rest of the text.
RestAfterPredicate(c, w) ==
    LET left == {r \in Remainders : r[1] = Upper(c[w])}
        rest == SubSeq(c, w + 1, Len(c))
    IN  IF left = {} THEN rest
        ELSE <<(IF c[w] \in LowerWords
                THEN Lower((CHOOSE r \in left : TRUE)[2])
                ELSE (CHOOSE r \in left : TRUE)[2])>> \o rest

RECURSIVE FindPredicates(_)
FindPredicates(c) ==
    LET starts == {j \in 1..Len(c) : PredicateAt(c, j) > 0}
    IN  IF starts = {} THEN {}
        ELSE LET j == Min(starts)
             IN  ({IdentName(c, j)} \ NotColumnName)
                     \cup FindPredicates(RestAfterPredicate(c, PredicateAt(c, j)))

WhereColumns(cleaned) ==
    LET starts == {i \in 1..Len(cleaned) : WhereClauseAt(cleaned, i) # <<>>}
    IN  IF starts = {} THEN {}
        ELSE LET where_clause == WhereClauseAt(cleaned, Min(starts))
             IN  FindComparisons(where_clause, 1)
                     \cup FindPredicates(where_clause)

sql_keywords ==
    {"select", "from", "where", "and", "or", "not", "in", "like",
     "between", "is", "null", "true", "false", "as", "on", "join",
     "left", "right", "inner", "outer", "full", "cross", "order",
     "by", "group", "having", "limit", "offset", "distinct", "all",
     "asc", "desc", "case", "when", "then", "else", "end", "count",
     "sum", "avg", "min", "max", "placeholder"}

\* name not in sql_keywords, for a name that is a sequence of atoms.
NotKeyword(name) == ~(Len(name) = 1 /\ name[1] \in sql_keywords)

\* The two sets extract_identifiers builds, before list() orders them.
extract_identifiers(sql) ==
    LET Found(cleaned) ==
            [tables |->
                 {t \in FindKeywordIdents(cleaned, 1, <<"FROM">>)
                      \cup FindKeywordIdents(cleaned, 1, <<"JOIN">>)
                      \cup FindKeywordIdents(cleaned, 1, <<"INSERT", "INTO">>)
                      \cup FindKeywordIdents(cleaned, 1, <<"UPDATE">>)
                      \cup FindKeywordIdents(cleaned, 1, <<"DELETE", "FROM">>) :
                     NotKeyword(t)},
             columns |->
                 {c \in SelectColumns(cleaned)
                      \cup WhereColumns(cleaned)
                      \cup FindKeywordIdents(cleaned, 1, <<"ORDER", "BY">>)
                      \cup FindKeywordIdents(cleaned, 1, <<"GROUP", "BY">>) :
                     NotKeyword(c)}]
    IN  Found(SubPlaceholders(SubQuoted(SubQuoted(sql, "'"), "\"")))

\* The warnings of one loop of check_identifiers over a list of names.
MissingWarnings(kind, names, known) ==
    LET missing(n) == names[n] \notin known
        at == {n \in 1..Len(names) : missing(n)}
        nth(k) == CHOOSE n \in at : Cardinality({m \in at : m < n}) = k - 1
    IN  [k \in 1..Cardinality(at) |-> [kind |-> kind, name |-> names[nth(k)]]]

\* A check_identifiers that compares with the schema's names as written,
\* without lower().
check_identifiers_case_sensitive(identifiers, schema) ==
    LET schema_tables == {<<schema[n].name>> : n \in 1..Len(schema)}
        all_columns ==
            UNION {{<<schema[n].columns[m]>> :
                        m \in 1..Len(schema[n].columns)} :
                   n \in 1..Len(schema)}
    IN  MissingWarnings("table_not_found", identifiers.tables, schema_tables)
            \o MissingWarnings("column_not_found", identifiers.columns,
                               all_columns)

\* identifiers: [tables, columns], each a list; schema: a sequence of tables
\* [name, columns], with columns a sequence of column names.
check_identifiers(identifiers, schema) ==
    LET schema_tables == {<<Lower(schema[n].name)>> : n \in 1..Len(schema)}
        all_columns ==
            UNION {{<<Lower(schema[n].columns[m])>> :
                        m \in 1..Len(schema[n].columns)} :
                   n \in 1..Len(schema)}
    IN  MissingWarnings("table_not_found", identifiers.tables, schema_tables)
            \o MissingWarnings("column_not_found", identifiers.columns,
                               all_columns)

(***************************************************************************)
(* src/config/settings.py, src/api/models.py, src/schema/models.py         *)
(***************************************************************************)

max_row_limit == 50

\* The keys of Settings.modifying_keywords; the warning of a kind is the
\* record [kind |-> "modifying", name |-> <<kind>>].
modifying_keywords ==
    {"INSERT", "UPDATE", "DELETE", "DROP", "TRUNCATE", "ALTER", "CREATE",
     "GRANT", "REVOKE"}

\* Settings.forbidden_keywords
forbidden_keywords ==
    {"INSERT", "UPDATE", "DELETE", "DROP", "TRUNCATE", "ALTER", "CREATE",
     "GRANT", "REVOKE", "EXEC", "EXECUTE", "MERGE", "UPSERT"}

QueryStatus == {"validated", "draft", "review_required", "error"}

\* schema: SchemaContext | None
None == [is_none |-> TRUE, tables |-> <<>>]
SchemaContext(tables) == [is_none |-> FALSE, tables |-> tables]
is_empty(schema) == Len(schema.tables) = 0

PolicyGateOutput(passed, sql, status, warnings, policy_errors) ==
    [passed |-> passed, sql |-> sql, status |-> status,
     warnings |-> warnings, policy_errors |-> policy_errors]

(***************************************************************************)
(* src/validation/policy_gate.py: the gate                                 *)
(***************************************************************************)

\* A lookup that knows the statements that change rows only.
get_statement_warning_for_rows_only(statement_type) ==
    IF statement_type \in {"INSERT", "UPDATE", "DELETE"}
    THEN <<[kind |-> "modifying", name |-> <<statement_type>>]>>
    ELSE <<>>

\* settings.modifying_keywords.get(statement_type.value): a list of at most
\* one warning.
get_statement_warning(statement_type) ==
    IF statement_type \in modifying_keywords
    THEN <<[kind |-> "modifying", name |-> <<statement_type>>]>>
    ELSE <<>>

\* "placeholder" in w.lower(): of the gate's warning texts only the
\* placeholder warning and a not-found warning that names such an
\* identifier contain the word.
MentionsPlaceholder(w) ==
    \/ w.kind = "placeholders"
    \/ /\ w.kind \in {"table_not_found", "column_not_found"}
       /\ \E n \in 1..Len(w.name) : w.name[n] = "placeholder"

\* A decision that reports a statement that is not read-only as an error.
determine_status_error_for_modifying(statement_type, has_placeholders, has_schema_issues) ==
    IF ~is_read_only_statement(statement_type) THEN "error"
    ELSE IF has_placeholders THEN "draft"
    ELSE IF has_schema_issues THEN "draft"
    ELSE "validated"

\* A decision that overlooks placeholders.
determine_status_ignoring_placeholders(statement_type, has_placeholders, has_schema_issues) ==
    IF ~is_read_only_statement(statement_type) THEN "review_required"
    ELSE IF has_schema_issues THEN "draft"
    ELSE "validated"

\* A decision that overlooks schema issues.
determine_status_ignoring_schema(statement_type, has_placeholders, has_schema_issues) ==
    IF ~is_read_only_statement(statement_type) THEN "review_required"
    ELSE IF has_placeholders THEN "draft"
    ELSE "validated"

determine_status(statement_type, has_placeholders, has_schema_issues) ==
    IF ~is_read_only_statement(statement_type) THEN "review_required"
    ELSE IF has_placeholders THEN "draft"
    ELSE IF has_schema_issues THEN "draft"
    ELSE "validated"

\* The lists list(set) can return for a set.
ListsOf(S) ==
    {f \in [1..Cardinality(S) -> S] :
        \A a, b \in 1..Cardinality(S) : a # b => f[a] # f[b]}

\* The results check_schema_consistency can return: extract_identifiers
\* turns its two sets into lists in an order the language does not fix.
check_schema_consistency(sql, schema) ==
    LET Checked(identifiers) ==
            {check_identifiers([tables |-> tl, columns |-> cl],
                               schema.tables) :
                tl \in ListsOf(identifiers.tables),
                cl \in ListsOf(identifiers.columns)}
    IN  Checked(extract_identifiers(sql))

\* Step 6 without the test for a read-only statement.
SchemaIssuesForEveryType(modified_sql, schema, statement_type) ==
    IF ~schema.is_none /\ ~is_empty(schema)
    THEN check_schema_consistency(modified_sql, schema)
    ELSE {<<>>}

\* Step 6 of run_policy_gate: the possible values of schema_issues.
SchemaIssues(modified_sql, schema, statement_type) ==
    IF ~schema.is_none /\ ~is_empty(schema)
       /\ is_read_only_statement(statement_type)
    THEN check_schema_consistency(modified_sql, schema)
    ELSE {<<>>}

\* Step 4 with its test inverted: LIMIT is never enforced on a read-only
\* statement.
LimitStepSkipped(sql, statement_type) ==
    IF ~is_read_only_statement(statement_type)
    THEN enforce_limit(sql, max_row_limit, statement_type)
    ELSE [sql |-> sql, modified |-> FALSE]

\* Step 4 of run_policy_gate: the text and the flag enforce_limit returns,
\* or the text as it is for a statement that is not read-only.
LimitStep(sql, statement_type) ==
    IF is_read_only_statement(statement_type)
    THEN enforce_limit(sql, max_row_limit, statement_type)
    ELSE [sql |-> sql, modified |-> FALSE]

\* Step 5 without the writer's hint.
HasPlaceholdersInTextOnly(modified_sql, has_placeholders_from_writer) ==
    Len(detect_placeholders(modified_sql)) > 0

\* Step 5: has_placeholders.
HasPlaceholders(modified_sql, has_placeholders_from_writer) ==
    Len(detect_placeholders(modified_sql)) > 0 \/ has_placeholders_from_writer

\* A warnings list with the schema warnings put first.
GateWarningsSchemaFirst(statement_type, limit_modified, has_placeholders, schema_issues) ==
    LET warnings3 == schema_issues \o get_statement_warning(statement_type)
        warnings4 == IF limit_modified
                     THEN Append(warnings3,
                                 [kind |-> "limit_enforced",
                                  name |-> <<StrOf(max_row_limit)>>])
                     ELSE warnings3
    IN  IF has_placeholders
           /\ ~\E n \in 1..Len(warnings4) : MentionsPlaceholder(warnings4[n])
        THEN Append(warnings4, [kind |-> "placeholders", name |-> <<>>])
        ELSE warnings4

\* The warnings list after steps 3 to 6.
GateWarnings(statement_type, limit_modified, has_placeholders, schema_issues) ==
    LET warnings3 == get_statement_warning(statement_type)
        warnings4 == IF limit_modified
                     THEN Append(warnings3,
                                 [kind |-> "limit_enforced",
                                  name |-> <<StrOf(max_row_limit)>>])
                     ELSE warnings3
        warnings5 ==
            IF has_placeholders
               /\ ~\E n \in 1..Len(warnings4) : MentionsPlaceholder(warnings4[n])
            THEN Append(warnings4, [kind |-> "placeholders", name |-> <<>>])
            ELSE warnings4
    IN  warnings5 \o schema_issues

\* A gate in which placeholders block: passed is false when the statement
\* has placeholders.
GatePassUnlessPlaceholders(sql, statement_type, has_placeholders_from_writer, schema_issues) ==
    LET limited == LimitStep(sql, statement_type)
        has_placeholders ==
            HasPlaceholders(limited.sql, has_placeholders_from_writer)
    IN  PolicyGateOutput(
            ~has_placeholders, limited.sql,
            determine_status(statement_type, has_placeholders,
                             Len(schema_issues) > 0),
            GateWarnings(statement_type, limited.modified, has_placeholders,
                         schema_issues),
            <<>>)

\* A gate that returns the text it was given: the rewritten text is used for
\* the checks and then dropped.
GatePassReturningInput(sql, statement_type, has_placeholders_from_writer, schema_issues) ==
    LET limited == LimitStep(sql, statement_type)
        has_placeholders ==
            HasPlaceholders(limited.sql, has_placeholders_from_writer)
    IN  PolicyGateOutput(
            TRUE, sql,
            determine_status(statement_type, has_placeholders,
                             Len(schema_issues) > 0),
            GateWarnings(statement_type, limited.modified, has_placeholders,
                         schema_issues),
            <<>>)

\* The output of run_policy_gate for a statement that passed steps 1 and 2,
\* given the schema_issues step 6 produced.
GatePass(sql, statement_type, has_placeholders_from_writer, schema_issues) ==
    LET limited == LimitStep(sql, statement_type)
        has_placeholders ==
            HasPlaceholders(limited.sql, has_placeholders_from_writer)
    IN  PolicyGateOutput(
            TRUE, limited.sql,
            determine_status(statement_type, has_placeholders,
                             Len(schema_issues) > 0),
            GateWarnings(statement_type, limited.modified, has_placeholders,
                         schema_issues),
            <<>>)

UnknownTypeError ==
    "Unable to determine SQL statement type. Query must start with a valid SQL keyword."
MultipleStatementsError ==
    "Multiple SQL statements detected. Please submit one query at a time."

\* An early return that trims the text it hands back.
GateFailTrimmed(sql, message) ==
    PolicyGateOutput(FALSE, Strip(sql), "error", <<>>, <<message>>)

\* The output of the two early returns of run_policy_gate.
GateFail(sql, message) ==
    PolicyGateOutput(FALSE, sql, "error", <<>>, <<message>>)

\* A gate without the early return of step 1: an UNKNOWN statement goes on
\* to steps 2 to 7.
run_policy_gate_unknown_falls_through(sql, schema, has_placeholders_from_writer) ==
    LET statement_type == classify_statement(sql)
    IN  IF check_multiple_statements(sql)
        THEN {GateFail(sql, MultipleStatementsError)}
        ELSE {GatePass(sql, statement_type, has_placeholders_from_writer,
                       schema_issues) :
                 schema_issues \in
                     SchemaIssues(LimitStep(sql, statement_type).sql, schema,
                                  statement_type)}

\* A gate without step 2: several statements go on to steps 3 to 7.
run_policy_gate_without_step_2(sql, schema, has_placeholders_from_writer) ==
    LET statement_type == classify_statement(sql)
    IN  IF statement_type = "UNKNOWN"
        THEN {GateFail(sql, UnknownTypeError)}
        ELSE {GatePass(sql, statement_type, has_placeholders_from_writer,
                       schema_issues) :
                 schema_issues \in
                     SchemaIssues(LimitStep(sql, statement_type).sql, schema,
                                  statement_type)}

\* The outputs run_policy_gate can return (one for each order of the
\* schema warnings).
run_policy_gate(sql, schema, has_placeholders_from_writer) ==
    LET statement_type == classify_statement(sql)
    IN  IF statement_type = "UNKNOWN"
        THEN {GateFail(sql, UnknownTypeError)}
        ELSE IF check_multiple_statements(sql)
        THEN {GateFail(sql, MultipleStatementsError)}
        ELSE {GatePass(sql, statement_type, has_placeholders_from_writer,
                       schema_issues) :
                 schema_issues \in
                     SchemaIssues(LimitStep(sql, statement_type).sql, schema,
                                  statement_type)}

(***************************************************************************)
(* src/schema/parser.py                                                    *)
(***************************************************************************)

\* JSON data as Python holds it; a str is a sequence of atoms.
JNone == [type |-> "NoneType"]
JStr(atoms) == [type |-> "str", value |-> atoms]
JInt(n) == [type |-> "int", value |-> n]
JList(items) == [type |-> "list", items |-> items]
JDict(fields) == [type |-> "dict", fields |-> fields]

\* data.get(key, default)
Get(data, key, default) ==
    IF key \in DOMAIN data.fields THEN data.fields[key] ELSE default

\* not v
Falsy(v) ==
    CASE v.type = "NoneType" -> TRUE
      [] v.type = "str" -> v.value = <<>>
      [] v.type = "int" -> v.value = 0
      [] v.type = "list" -> v.items = <<>>
      [] v.type = "dict" -> DOMAIN v.fields = {}

\* What a parse function does: it returns a value or raises SchemaParseError
\* with a message (a sequence of pieces of text).
Returns(value) == [raised |-> FALSE, value |-> value, message |-> <<>>]
Raises(message) == [raised |-> TRUE, value |-> <<>>, message |-> message]

\* name.strip() as the name of a table or column of the schema: the names
\* handed in are one word within whitespace.
StrippedName(atoms) == IF Strip(atoms) = <<>> THEN "" ELSE Strip(atoms)[1]

\* The index i of enumerate() in a message.
IndexText(i) == <<"0", "1", "2", "3">>[i + 1]

parse_column(data) ==
    IF data.type # "dict"
    THEN Raises(<<"Column must be an object, got ", data.type>>)
    ELSE LET name == Get(data, "name", JNone)
         IN  IF Falsy(name) \/ name.type # "str"
             THEN Raises(<<"Column must have a 'name' field of type string">>)
             ELSE Returns(StrippedName(name.value))

\* The loop over columns_data: the columns parsed, or the first error.
RECURSIVE ParseColumns(_, _, _)
ParseColumns(columns_data, i, name) ==
    IF i >= Len(columns_data) THEN Returns(<<>>)
    ELSE LET column == parse_column(columns_data[i + 1])
             rest == ParseColumns(columns_data, i + 1, name)
         IN  IF column.raised
             THEN Raises(<<"Error parsing column ", IndexText(i),
                           " in table '">> \o name \o <<"': ">>
                             \o column.message)
             ELSE IF rest.raised THEN rest
             ELSE Returns(<<column.value>> \o rest.value)

parse_table(data) ==
    IF data.type # "dict"
    THEN Raises(<<"Table must be an object, got ", data.type>>)
    ELSE LET name == Get(data, "name", JNone)
             columns_data == Get(data, "columns", JList(<<>>))
         IN  IF Falsy(name) \/ name.type # "str"
             THEN Raises(<<"Table must have a 'name' field of type string">>)
             ELSE IF columns_data.type # "list"
             THEN Raises(<<"Table 'columns' must be an array, got ",
                           columns_data.type>>)
             ELSE LET columns == ParseColumns(columns_data.items, 0,
                                              name.value)
                  IN  IF columns.raised THEN columns
                      ELSE Returns([name |-> StrippedName(name.value),
                                    columns |-> columns.value])

\* The loop over tables_data: the tables parsed, or the first error.
RECURSIVE ParseTables(_, _)
ParseTables(tables_data, i) ==
    IF i >= Len(tables_data) THEN Returns(<<>>)
    ELSE LET table == parse_table(tables_data[i + 1])
             rest == ParseTables(tables_data, i + 1)
         IN  IF table.raised
             THEN Raises(<<"Error parsing table ", IndexText(i), ": ">>
                             \o table.message)
             ELSE IF rest.raised THEN rest
             ELSE Returns(<<table.value>> \o rest.value)

\* A parse_schema that leaves out the tables it cannot parse.
parse_schema_skipping_bad_tables(data) ==
    IF data.type = "NoneType" THEN Returns(SchemaContext(<<>>))
    ELSE IF data.type # "dict"
    THEN Raises(<<"Schema must be an object, got ", data.type>>)
    ELSE LET tables_data == Get(data, "tables", JList(<<>>))
         IN  IF tables_data.type # "list"
             THEN Raises(<<"Schema 'tables' must be an array, got ",
                           tables_data.type>>)
             ELSE LET good(table_data) == ~parse_table(table_data).raised
                  IN  Returns(SchemaContext(
                          ParseTables(SelectSeq(tables_data.items, good),
                                      0).value))

parse_schema(data) ==
    IF data.type = "NoneType" THEN Returns(SchemaContext(<<>>))
    ELSE IF data.type # "dict"
    THEN Raises(<<"Schema must be an object, got ", data.type>>)
    ELSE LET tables_data == Get(data, "tables", JList(<<>>))
         IN  IF tables_data.type # "list"
             THEN Raises(<<"Schema 'tables' must be an array, got ",
                           tables_data.type>>)
             ELSE IF Falsy(tables_data) THEN Returns(SchemaContext(<<>>))
             ELSE LET tables == ParseTables(tables_data.items, 0)
                  IN  IF tables.raised THEN tables
                      ELSE Returns(SchemaContext(tables.value))

(***************************************************************************)
(* src/orchestrator/root.py                                                *)
(***************************************************************************)

\* QueryResponse.sql: str | None
NoSql == [is_none |-> TRUE, text |-> <<>>]
SomeSql(text) == [is_none |-> FALSE, text |-> text]

\* "schema" in q.lower(), for the questions of PlannerQuestions.
MentionsSchema(q) == q = "Which schema should be used?"
SchemaQuestion == "Please provide your database schema to remove placeholders."

\* schema_error: str | None, here <<>> for None or the list of the one message
\* str(e).
NoSchemaError == <<>>

\* parse_schema_fn: the schema and the error message.
parse_schema_fn(schema_json) ==
    IF schema_json.type = "NoneType"
    THEN [schema |-> SchemaContext(<<>>), schema_error |-> NoSchemaError]
    ELSE LET parsed == parse_schema(schema_json)
         IN  IF parsed.raised
             THEN [schema |-> SchemaContext(<<>>),
                   schema_error |-> <<parsed.message>>]
             ELSE [schema |-> parsed.value, schema_error |-> NoSchemaError]

\* if schema_error: neither None nor the empty string.
IsSchemaError(schema_error) ==
    schema_error # NoSchemaError /\ schema_error[1] # <<>>

\* [f"Invalid schema format: {schema_error}"]
InvalidSchemaFormat(schema_error) ==
    <<<<"Invalid schema format: ">> \o schema_error[1]>>

build_response_fn(planner_output, writer_output, gate_output, schema_error) ==
    IF IsSchemaError(schema_error)
    THEN [sql |-> NoSql, status |-> "error", placeholders |-> <<>>,
          warnings |-> <<>>, clarifying_questions |-> <<>>,
          assumptions |-> <<>>,
          policy_errors |-> InvalidSchemaFormat(schema_error)]
    ELSE LET all_questions == planner_output.clarifying_questions
             asked == IF gate_output.status = "draft"
                         /\ Len(writer_output.placeholders) > 0
                         /\ ~\E n \in 1..Len(all_questions) :
                                MentionsSchema(all_questions[n])
                      THEN Append(all_questions, SchemaQuestion)
                      ELSE all_questions
         IN  [sql |-> SomeSql(gate_output.sql),
              status |-> gate_output.status,
              placeholders |-> writer_output.placeholders,
              warnings |-> gate_output.warnings,
              clarifying_questions |-> asked,
              assumptions |-> planner_output.assumptions,
              policy_errors |-> gate_output.policy_errors]

(***************************************************************************)
(* Inputs                                                                  *)
(***************************************************************************)

\* The texts made of at most n fragments of F.
RECURSIVE Concats(_, _)
Concats(F, n) ==
    IF n = 0 THEN {<<>>}
    ELSE LET shorter == Concats(F, n - 1)
         IN  shorter \cup {p \o f : p \in shorter, f \in F}

MaxFragments == 2
MaxLimitFragments == 3
MaxQuoteAtoms == 6

\* How a statement handed to the gate begins.
GateLeads ==
    {<<>>, <<" ">>, <<"SELECT">>, <<"\n", "select">>, <<"WITH">>,
     <<"INSERT">>, <<"UPDATE">>, <<"DELETE">>, <<"DROP">>, <<"TRUNCATE">>,
     <<"ALTER">>, <<"CREATE">>, <<"GRANT">>, <<"REVOKE">>, <<"EXPLAIN">>}

\* How it goes on.
GateFragments ==
    {<<" ", "*", " ", "FROM", " ", "users">>,
     <<" ", "id", " ", "FROM", " ", "x">>,
     <<" ", "WHERE", " ", "name", "=", "7">>,
     <<" ", "LIMIT", " ", "7">>,
     <<" ", "LIMIT", " ", "900">>,
     <<" ", "FROM", " ", "<", "T", ">">>,
     <<" ", "'", ";", "'">>,
     <<";">>}

GateTexts ==
    {lead \o rest : lead \in GateLeads,
                    rest \in Concats(GateFragments, MaxFragments)}

\* SqlWriterOutput.placeholders: what the writer reported.
WriterPlaceholders ==
    {<<>>, <<[token |-> <<"<", "T", ">">>, meaning |-> "Target table"]>>}

\* The schema handed to the gate.
Schemas ==
    {None,
     SchemaContext(<<>>),
     SchemaContext(<<[name |-> "USERS", columns |-> <<"ID">>]>>),
     SchemaContext(<<[name |-> "T", columns |-> <<"name">>]>>)}

\* PlannerOutput: clarifying_questions and assumptions.
PlannerOutputs ==
    {[clarifying_questions |-> <<>>, assumptions |-> <<>>],
     [clarifying_questions |-> <<"Which schema should be used?">>,
      assumptions |-> <<"Assuming the default schema">>]}

\* The texts handed to enforce_limit and to check_multiple_statements.
LimitTexts ==
    LET LimitFragments ==
            {<<"SELECT">>, <<" ", "LIMIT", " ", "7">>, <<" ", "limit", " ", "50">>,
             <<" ", "LIMIT", " ", "900">>, <<"LIMIT">>, <<" ">>, <<"7">>, <<"900">>,
             <<";">>, <<"x">>}
    IN  Concats(LimitFragments, MaxLimitFragments)
MaxLimits == {7, 50}

QuoteTexts ==
    LET QuoteAtoms == {"'", "\"", ";", "x", " "}
    IN  UNION {[1..n -> QuoteAtoms] : n \in 0..MaxQuoteAtoms}

\* The texts handed to detect_placeholders.
MaxPlaceholderFragments == 3
PlaceholderTexts ==
    LET PlaceholderFragments ==
            {<<"<", "T", ">">>, <<"<", "TABLE", "_", "NAME", ">">>,
             <<"<", "T", "7", ">">>, <<"<", "t", ">">>, <<"<", "7", ">">>,
             <<" ">>, <<"x">>, <<"<">>, <<">">>}
    IN  Concats(PlaceholderFragments, MaxPlaceholderFragments)

\* The texts handed to classify_statement: whitespace, a first word, a rest.
ClassifyTexts ==
    LET ClassifyLeads == {<<>>, <<" ">>, <<"\n">>, <<" ", "\n">>}
        ClassifyWords ==
            {<<ClassifyOrder[n]>> : n \in 1..Len(ClassifyOrder)}
                \cup {<<Lower(ClassifyOrder[n])>> : n \in 1..Len(ClassifyOrder)}
                \cup {<<>>, <<"EXPLAIN">>, <<"explain">>, <<"EXECUTE">>, <<"INTO">>,
                      <<"x">>, <<"7">>, <<";">>}
        ClassifyRests ==
            {<<>>, <<" ">>, <<"x">>, <<" ", "x">>, <<" ", "SELECT">>, <<"\n", "drop">>}
    IN  {lead \o word \o rest :
            lead \in ClassifyLeads, word \in ClassifyWords, rest \in ClassifyRests}

\* The identifiers handed to check_identifiers: lists without repetition of
\* lower-case names, as extract_identifiers builds them, and the tables of a
\* schema.
MaxNames == 2
MaxTables == 2
TableNames == {<<"users">>, <<"t">>, <<"x">>}
ColumnNames == {<<"id">>, <<"name">>, <<"x">>}
NameLists(S) ==
    UNION {{f \in [1..n -> S] : \A a, b \in 1..n : a # b => f[a] # f[b]} :
              n \in 0..MaxNames}
Tables ==
    {[name |-> "USERS", columns |-> <<"ID">>],
     [name |-> "users", columns |-> <<"id", "NAME">>],
     [name |-> "T", columns |-> <<"name">>],
     [name |-> "x", columns |-> <<>>]}
TableLists == UNION {[1..n -> Tables] : n \in 0..MaxTables}

\* The texts handed to extract_identifiers: a SELECT list, a table reference
\* made of placeholder tokens and name characters, and a rest.
MaxExtractFragments == 2
ExtractTexts ==
    LET ExtractColumns ==
            {<<"*">>, <<"id">>, <<"COUNT", "(", "ID", ")">>, <<"<", "COLUMN", ">">>,
             <<"name", ",", " ", "id", ",", " ", "name">>}
        ExtractTableFragments ==
            {<<"<", "T", ">">>, <<"x">>, <<"USERS">>, <<"_">>}
        ExtractRests ==
            {<<>>,
             <<" ", "WHERE", " ", "name", " ", "=", " ", "7">>,
             <<" ", "WHERE", " ", "<", "COLUMN", ">", " ", "=", " ", "7",
               " ", "AND", " ", "ID", " ", "=", " ", "7">>,
             <<" ", "JOIN", " ", "<", "TABLE", "_", "NAME", ">">>,
             <<" ", "ORDER", " ", "BY", " ", "asc">>,
             <<" ", "GROUP", " ", "BY", " ", "name">>}
    IN  {<<"SELECT", " ">> \o cols \o <<" ", "FROM", " ">> \o tab \o rest :
            cols \in ExtractColumns,
            tab \in Concats(ExtractTableFragments, MaxExtractFragments),
            rest \in ExtractRests}

(***************************************************************************)
(* State                                                                   *)
(***************************************************************************)

VARIABLES
    pc,             \* where the caller stands
    w_out,          \* SqlWriterOutput: the SQL text and the writer's placeholders
    schema_ctx,     \* the schema of the request
    g_out,          \* PolicyGateOutput, once pc is past "start"
    resp,           \* QueryResponse, once pc = "responded"
    call,           \* the arguments of a direct call of a function of the gate
    limited,        \* what enforce_limit returned
    relimited,      \* what enforce_limit returned for its own output
    multiple,       \* what check_multiple_statements returned
    decided,        \* what determine_status returned
    idents,         \* the identifiers handed to check_identifiers
    detected,       \* what detect_placeholders returned
    classified,     \* what classify_statement returned
    checked,        \* what check_identifiers returned
    g_again,        \* PolicyGateOutput of a second invocation of the gate
    frames,         \* the locals of each call of run_policy_gate under way
    settings_cache, \* the lru_cache of get_settings: empty or one Settings
    extracted,      \* what extract_identifiers returned
    schema_json,    \* the schema_json of the request
    schema_error,   \* the error message parse_schema_fn returned
    p_out,          \* PlannerOutput
    invoked         \* the stages run_pipeline has called

vars == <<pc, w_out, schema_ctx, g_out, resp, call, limited, relimited,
          multiple, decided, idents, detected, classified, checked, g_again,
          frames, settings_cache, extracted, schema_json, schema_error, p_out,
          invoked>>

NoIdentifiers == [tables |-> <<>>, columns |-> <<>>]

NoGateOutput == PolicyGateOutput(FALSE, <<>>, "error", <<>>, <<>>)
NoResponse ==
    [sql |-> NoSql, status |-> "error", placeholders |-> <<>>,
     warnings |-> <<>>, clarifying_questions |-> <<>>, assumptions |-> <<>>,
     policy_errors |-> <<>>]
NoLimit == [sql |-> <<>>, modified |-> FALSE]
NoPlannerOutput == [clarifying_questions |-> <<>>, assumptions |-> <<>>]
NoWriterOutput == [sql |-> <<>>, placeholders |-> <<>>]
Call(fn, sql, max_limit, statement_type, has_placeholders, has_schema_issues) ==
    [fn |-> fn, sql |-> sql, max_limit |-> max_limit,
     statement_type |-> statement_type,
     has_placeholders |-> has_placeholders,
     has_schema_issues |-> has_schema_issues]
NoCall == Call("none", <<>>, max_row_limit, "UNKNOWN", FALSE, FALSE)

(***************************************************************************)
(* run_policy_gate on a writer's output and build_response_fn on what it   *)
(* returns: run_pipeline, stages 4 and 5 (the schema is None when the gate *)
(* is called without one, as the tests do)                                 *)
(***************************************************************************)

Init ==
    /\ pc = "start"
    /\ \E sql \in GateTexts, placeholders \in WriterPlaceholders :
           w_out = [sql |-> sql, placeholders |-> placeholders]
    /\ schema_ctx \in Schemas
    /\ g_out = NoGateOutput
    /\ resp = NoResponse
    /\ call = NoCall
    /\ limited = NoLimit
    /\ relimited = NoLimit
    /\ multiple = FALSE
    /\ decided = "error"
    /\ idents = NoIdentifiers
    /\ detected = <<>>
    /\ classified = "UNKNOWN"
    /\ checked = <<>>
    /\ g_again = NoGateOutput
    /\ frames = <<>>
    /\ settings_cache = <<>>
    /\ extracted = NoIdentifiers
    /\ schema_json = JNone
    /\ schema_error = NoSchemaError
    /\ p_out = NoPlannerOutput
    /\ invoked = {}

\* run_policy_gate_fn(writer_output.sql, schema, has_placeholders)
RunPolicyGate ==
    /\ pc = "start"
    /\ \E out \in run_policy_gate(w_out.sql, schema_ctx,
                                  Len(w_out.placeholders) > 0) :
           g_out' = out
    /\ pc' = "gated"
    /\ UNCHANGED <<w_out, schema_ctx, resp, call, limited, relimited,
                   multiple, decided, idents, detected, classified, checked,
                   g_again, frames, settings_cache, extracted, schema_json,
                   schema_error, p_out, invoked>>

\* build_response_fn(planner_output, writer_output, gate_output)
BuildResponse ==
    /\ pc = "gated"
    /\ \E planner_output \in PlannerOutputs :
           resp' = build_response_fn(planner_output, w_out, g_out,
                                     NoSchemaError)
    /\ pc' = "responded"
    /\ UNCHANGED <<w_out, schema_ctx, g_out, call, limited, relimited,
                   multiple, decided, idents, detected, classified, checked,
                   g_again, frames, settings_cache, extracted, schema_json,
                   schema_error, p_out, invoked>>

Next == RunPolicyGate \/ BuildResponse

Spec == Init /\ [][Next]_vars

(***************************************************************************)
(* Direct calls of the gate's functions                                    *)
(***************************************************************************)

\* The caller picks a function of the gate and its arguments.
InitCalls ==
    /\ pc = "call"
    /\ \/ /\ \/ \E t \in StatementType, hp \in BOOLEAN, hs \in BOOLEAN :
                    call = Call("determine_status", <<>>, max_row_limit, t,
                                hp, hs)
             \/ \E s \in LimitTexts, m \in MaxLimits, t \in StatementType :
                    call = Call("enforce_limit", s, m, t, FALSE, FALSE)
             \/ \E s \in QuoteTexts :
                    call = Call("check_multiple_statements", s, max_row_limit,
                                "UNKNOWN", FALSE, FALSE)
             \/ \E s \in PlaceholderTexts :
                    call = Call("detect_placeholders", s, max_row_limit,
                                "UNKNOWN", FALSE, FALSE)
             \/ \E s \in ClassifyTexts :
                    call = Call("classify_statement", s, max_row_limit,
                                "UNKNOWN", FALSE, FALSE)
             \/ \E s \in ExtractTexts :
                    call = Call("extract_identifiers", s, max_row_limit,
                                "UNKNOWN", FALSE, FALSE)
          /\ schema_ctx = None
          /\ idents = NoIdentifiers
       \/ /\ call = Call("check_identifiers", <<>>, max_row_limit, "UNKNOWN",
                         FALSE, FALSE)
          /\ \E tables \in TableLists : schema_ctx = SchemaContext(tables)
          /\ \E tl \in NameLists(TableNames), cl \in NameLists(ColumnNames) :
                 idents = [tables |-> tl, columns |-> cl]
    /\ w_out = [sql |-> <<>>, placeholders |-> <<>>]
    /\ g_out = NoGateOutput
    /\ resp = NoResponse
    /\ limited = NoLimit
    /\ relimited = NoLimit
    /\ multiple = FALSE
    /\ decided = "error"
    /\ detected = <<>>
    /\ classified = "UNKNOWN"
    /\ checked = <<>>
    /\ g_again = NoGateOutput
    /\ frames = <<>>
    /\ settings_cache = <<>>
    /\ extracted = NoIdentifiers
    /\ schema_json = JNone
    /\ schema_error = NoSchemaError
    /\ p_out = NoPlannerOutput
    /\ invoked = {}

DetermineStatus ==
    /\ pc = "call"
    /\ call.fn = "determine_status"
    /\ decided' = determine_status(call.statement_type, call.has_placeholders,
                                   call.has_schema_issues)
    /\ pc' = "returned"
    /\ UNCHANGED <<w_out, schema_ctx, g_out, resp, call, limited, relimited,
                   multiple, idents, detected, classified, checked, g_again,
                   frames, settings_cache, extracted, schema_json,
                   schema_error, p_out, invoked>>

EnforceLimit ==
    /\ pc = "call"
    /\ call.fn = "enforce_limit"
    /\ limited' = enforce_limit(call.sql, call.max_limit, call.statement_type)
    /\ pc' = "returned"
    /\ UNCHANGED <<w_out, schema_ctx, g_out, resp, call, relimited, multiple,
                   decided, idents, detected, classified, checked, g_again,
                   frames, settings_cache, extracted, schema_json,
                   schema_error, p_out, invoked>>

\* enforce_limit called again on the text it returned.
EnforceLimitAgain ==
    /\ pc = "returned"
    /\ call.fn = "enforce_limit"
    /\ relimited' = enforce_limit(limited.sql, call.max_limit,
                                  call.statement_type)
    /\ pc' = "returned_again"
    /\ UNCHANGED <<w_out, schema_ctx, g_out, resp, call, limited, multiple,
                   decided, idents, detected, classified, checked, g_again,
                   frames, settings_cache, extracted, schema_json,
                   schema_error, p_out, invoked>>

CheckMultipleStatements ==
    /\ pc = "call"
    /\ call.fn = "check_multiple_statements"
    /\ multiple' = check_multiple_statements(call.sql)
    /\ pc' = "returned"
    /\ UNCHANGED <<w_out, schema_ctx, g_out, resp, call, limited, relimited,
                   decided, idents, detected, classified, checked, g_again,
                   frames, settings_cache, extracted, schema_json,
                   schema_error, p_out, invoked>>

DetectPlaceholders ==
    /\ pc = "call"
    /\ call.fn = "detect_placeholders"
    /\ detected' = detect_placeholders(call.sql)
    /\ pc' = "returned"
    /\ UNCHANGED <<w_out, schema_ctx, g_out, resp, call, limited, relimited,
                   multiple, decided, idents, classified, checked, g_again,
                   frames, settings_cache, extracted, schema_json,
                   schema_error, p_out, invoked>>

ClassifyStatement ==
    /\ pc = "call"
    /\ call.fn = "classify_statement"
    /\ classified' = classify_statement(call.sql)
    /\ pc' = "returned"
    /\ UNCHANGED <<w_out, schema_ctx, g_out, resp, call, limited, relimited,
                   multiple, decided, idents, detected, checked, g_again,
                   frames, settings_cache, extracted, schema_json,
                   schema_error, p_out, invoked>>

CheckIdentifiers ==
    /\ pc = "call"
    /\ call.fn = "check_identifiers"
    /\ checked' = check_identifiers(idents, schema_ctx.tables)
    /\ pc' = "returned"
    /\ UNCHANGED <<w_out, schema_ctx, g_out, resp, call, limited, relimited,
                   multiple, decided, idents, detected, classified, g_again,
                   frames, settings_cache, extracted, schema_json,
                   schema_error, p_out, invoked>>

\* extract_identifiers returns its two sets as lists, in some order.
ExtractIdentifiers ==
    /\ pc = "call"
    /\ call.fn = "extract_identifiers"
    /\ LET identifiers == extract_identifiers(call.sql)
       IN  \E tl \in ListsOf(identifiers.tables),
              cl \in ListsOf(identifiers.columns) :
               extracted' = [tables |-> tl, columns |-> cl]
    /\ pc' = "returned"
    /\ UNCHANGED <<w_out, schema_ctx, g_out, resp, call, limited, relimited,
                   multiple, decided, idents, detected, classified, checked,
                   g_again, frames, settings_cache, schema_json, schema_error,
                   p_out, invoked>>

NextCalls ==
    DetermineStatus \/ EnforceLimit \/ EnforceLimitAgain
        \/ CheckMultipleStatements \/ DetectPlaceholders
        \/ ClassifyStatement \/ CheckIdentifiers \/ ExtractIdentifiers

SpecCalls == InitCalls /\ [][NextCalls]_vars

(***************************************************************************)
(* Two invocations of the gate: on the same arguments, and on the SQL the  *)
(* first invocation returned                                               *)
(***************************************************************************)

MaxAgainFragments == 2

\* How a statement handed to the gate twice begins, and how it goes on.
AgainTexts ==
    LET AgainLeads ==
            {<<"SELECT">>, <<"WITH">>, <<"INSERT">>, <<"DROP">>, <<"EXEC">>,
             <<"EXECUTE">>, <<"MERGE">>, <<"UPSERT">>}
        AgainFragments ==
            {<<" ", "*", " ", "FROM", " ", "users">>,
             <<" ", "id", " ", "FROM", " ", "x">>,
             <<" ", "LIMIT", " ", "900">>,
             <<" ", "FROM", " ", "<", "T", ">">>,
             <<";">>}
    IN  {lead \o rest : lead \in AgainLeads,
                        rest \in Concats(AgainFragments, MaxAgainFragments)}

InitAgain ==
    /\ pc = "start"
    /\ \E sql \in AgainTexts, placeholders \in WriterPlaceholders :
           w_out = [sql |-> sql, placeholders |-> placeholders]
    /\ schema_ctx \in Schemas
    /\ g_out = NoGateOutput
    /\ resp = NoResponse
    /\ call = NoCall
    /\ limited = NoLimit
    /\ relimited = NoLimit
    /\ multiple = FALSE
    /\ decided = "error"
    /\ idents = NoIdentifiers
    /\ detected = <<>>
    /\ classified = "UNKNOWN"
    /\ checked = <<>>
    /\ g_again = NoGateOutput
    /\ frames = <<>>
    /\ settings_cache = <<>>
    /\ extracted = NoIdentifiers
    /\ schema_json = JNone
    /\ schema_error = NoSchemaError
    /\ p_out = NoPlannerOutput
    /\ invoked = {}

\* run_policy_gate called a second time with the arguments of the first call.
RunPolicyGateAgain ==
    /\ pc = "gated"
    /\ \E out \in run_policy_gate(w_out.sql, schema_ctx,
                                  Len(w_out.placeholders) > 0) :
           g_again' = out
    /\ pc' = "gated_again"
    /\ UNCHANGED <<w_out, schema_ctx, g_out, resp, call, limited, relimited,
                   multiple, decided, idents, detected, classified, checked,
                   frames, settings_cache, extracted, schema_json,
                   schema_error, p_out, invoked>>

\* run_policy_gate called on the SQL that a passing first call returned, with
\* the same schema and hint.
RunPolicyGateOnOutput ==
    /\ pc = "gated"
    /\ g_out.passed
    /\ \E out \in run_policy_gate(g_out.sql, schema_ctx,
                                  Len(w_out.placeholders) > 0) :
           g_again' = out
    /\ pc' = "regated"
    /\ UNCHANGED <<w_out, schema_ctx, g_out, resp, call, limited, relimited,
                   multiple, decided, idents, detected, classified, checked,
                   frames, settings_cache, extracted, schema_json,
                   schema_error, p_out, invoked>>

NextAgain == RunPolicyGate \/ RunPolicyGateAgain \/ RunPolicyGateOnOutput

SpecAgain == InitAgain /\ [][NextAgain]_vars

(***************************************************************************)
(* Calls of run_policy_gate interleaved across threads: each call steps    *)
(* through policy_gate.py:205-275 with its own locals; get_settings is     *)
(* shared through its lru_cache                                            *)
(***************************************************************************)

MaxThreads == 2
Threads == 1..MaxThreads

\* The Settings object: the field run_policy_gate reads.
Settings == [max_row_limit |-> max_row_limit]

\* get_settings under lru_cache: the cache after a call.
get_settings(cache) == IF cache = <<>> THEN <<Settings>> ELSE cache

\* A warnings list shared by the calls, as a module-level list would be:
\* every call appends to the list of the first call.
WarningsOfFirstCall(t) == frames[1].warnings

\* warnings: a list created by the call, local to it.
Warnings(t) == frames[t].warnings

\* Each call starts with arguments of ThreadCalls and, in NewFrame, locals
\* that no line has set yet.
InitThreads ==
    LET ThreadCalls ==
            {[sql |-> <<"EXPLAIN", " ", "x">>, schema |-> None, hint |-> FALSE],
             [sql |-> <<"SELECT", " ", "7", ";", "DROP", " ", "x">>,
              schema |-> None, hint |-> FALSE],
             [sql |-> <<"DELETE", " ", "FROM", " ", "users">>,
              schema |-> SchemaContext(<<[name |-> "T", columns |-> <<"name">>]>>),
              hint |-> TRUE],
             [sql |-> <<"SELECT", " ", "id", " ", "FROM", " ", "users", " ",
                        "LIMIT", " ", "900">>,
              schema |-> SchemaContext(<<[name |-> "T", columns |-> <<"name">>]>>),
              hint |-> FALSE],
             [sql |-> <<"SELECT", " ", "*", " ", "FROM", " ", "<", "T", ">">>,
              schema |-> SchemaContext(<<[name |-> "USERS", columns |-> <<"ID">>]>>),
              hint |-> FALSE],
             [sql |-> <<"select", " ", "id", " ", "FROM", " ", "users", " ",
                        "LIMIT", " ", "7">>,
              schema |-> SchemaContext(<<[name |-> "USERS", columns |-> <<"ID">>]>>),
              hint |-> FALSE]}
        NewFrame(args) ==
            [pc |-> "call", sql |-> args.sql, schema |-> args.schema,
             hint |-> args.hint, statement_type |-> "UNKNOWN",
             warnings |-> <<>>, policy_errors |-> <<>>, modified_sql |-> <<>>,
             has_placeholders |-> FALSE, schema_issues |-> <<>>,
             result |-> NoGateOutput]
    IN  /\ pc = "threads"
        /\ frames \in [Threads -> {NewFrame(args) : args \in ThreadCalls}]
        /\ settings_cache = <<>>
        /\ w_out = [sql |-> <<>>, placeholders |-> <<>>]
        /\ schema_ctx = None
        /\ g_out = NoGateOutput
        /\ resp = NoResponse
        /\ call = NoCall
        /\ limited = NoLimit
        /\ relimited = NoLimit
        /\ multiple = FALSE
        /\ decided = "error"
        /\ idents = NoIdentifiers
        /\ detected = <<>>
        /\ classified = "UNKNOWN"
        /\ checked = <<>>
        /\ g_again = NoGateOutput
        /\ extracted = NoIdentifiers
        /\ schema_json = JNone
        /\ schema_error = NoSchemaError
        /\ p_out = NoPlannerOutput
        /\ invoked = {}

\* Lines 205-208: settings = get_settings(), and the locals.
EnterGate ==
    \E t \in Threads :
        /\ frames[t].pc = "call"
        /\ settings_cache' = get_settings(settings_cache)
        /\ frames' = [frames EXCEPT ![t].pc = "step_1",
                                    ![t].warnings = <<>>,
                                    ![t].policy_errors = <<>>,
                                    ![t].modified_sql = frames[t].sql]
        /\ UNCHANGED <<pc, w_out, schema_ctx, g_out, resp, call, limited,
                       relimited, multiple, decided, idents, detected,
                       classified, checked, g_again, extracted, schema_json,
                       schema_error, p_out, invoked>>

\* Step 1: classify, and return for an UNKNOWN statement.
GateStep1 ==
    \E t \in Threads :
        /\ frames[t].pc = "step_1"
        /\ LET statement_type == classify_statement(frames[t].sql)
               policy_errors ==
                   Append(frames[t].policy_errors, UnknownTypeError)
           IN  frames' =
                   IF statement_type = "UNKNOWN"
                   THEN [frames EXCEPT
                            ![t].pc = "done",
                            ![t].statement_type = statement_type,
                            ![t].policy_errors = policy_errors,
                            ![t].result =
                                PolicyGateOutput(FALSE, frames[t].sql,
                                                 "error", Warnings(t),
                                                 policy_errors)]
                   ELSE [frames EXCEPT ![t].pc = "step_2",
                                       ![t].statement_type = statement_type]
        /\ UNCHANGED <<pc, w_out, schema_ctx, g_out, resp, call, limited,
                       relimited, multiple, decided, idents, detected,
                       classified, checked, g_again, settings_cache,
                       extracted, schema_json, schema_error, p_out, invoked>>

\* Step 2: return for several statements.
GateStep2 ==
    \E t \in Threads :
        /\ frames[t].pc = "step_2"
        /\ LET policy_errors ==
                   Append(frames[t].policy_errors, MultipleStatementsError)
           IN  frames' =
                   IF check_multiple_statements(frames[t].sql)
                   THEN [frames EXCEPT
                            ![t].pc = "done",
                            ![t].policy_errors = policy_errors,
                            ![t].result =
                                PolicyGateOutput(FALSE, frames[t].sql,
                                                 "error", Warnings(t),
                                                 policy_errors)]
                   ELSE [frames EXCEPT ![t].pc = "step_3"]
        /\ UNCHANGED <<pc, w_out, schema_ctx, g_out, resp, call, limited,
                       relimited, multiple, decided, idents, detected,
                       classified, checked, g_again, settings_cache,
                       extracted, schema_json, schema_error, p_out, invoked>>

\* Step 3: the warning for a statement that is not read-only.
GateStep3 ==
    \E t \in Threads :
        /\ frames[t].pc = "step_3"
        /\ frames' =
               [frames EXCEPT
                   ![t].pc = "step_4",
                   ![t].warnings =
                       Warnings(t)
                           \o get_statement_warning(frames[t].statement_type)]
        /\ UNCHANGED <<pc, w_out, schema_ctx, g_out, resp, call, limited,
                       relimited, multiple, decided, idents, detected,
                       classified, checked, g_again, settings_cache,
                       extracted, schema_json, schema_error, p_out, invoked>>

\* Step 4: enforce_limit with settings.max_row_limit, read from the shared
\* Settings object.
GateStep4 ==
    \E t \in Threads :
        /\ frames[t].pc = "step_4"
        /\ LET max_limit == settings_cache[1].max_row_limit
               limit == enforce_limit(frames[t].sql, max_limit,
                                      frames[t].statement_type)
           IN  frames' =
                   IF is_read_only_statement(frames[t].statement_type)
                   THEN [frames EXCEPT
                            ![t].pc = "step_5",
                            ![t].modified_sql = limit.sql,
                            ![t].warnings =
                                IF limit.modified
                                THEN Append(Warnings(t),
                                            [kind |-> "limit_enforced",
                                             name |-> <<StrOf(max_limit)>>])
                                ELSE Warnings(t)]
                   ELSE [frames EXCEPT ![t].pc = "step_5"]
        /\ UNCHANGED <<pc, w_out, schema_ctx, g_out, resp, call, limited,
                       relimited, multiple, decided, idents, detected,
                       classified, checked, g_again, settings_cache,
                       extracted, schema_json, schema_error, p_out, invoked>>

\* Step 5: placeholders in the text or reported by the writer.
GateStep5 ==
    \E t \in Threads :
        /\ frames[t].pc = "step_5"
        /\ LET has_placeholders ==
                   \/ Len(detect_placeholders(frames[t].modified_sql)) > 0
                   \/ frames[t].hint
           IN  frames' =
                   [frames EXCEPT
                       ![t].pc = "step_6",
                       ![t].has_placeholders = has_placeholders,
                       ![t].warnings =
                           IF has_placeholders
                              /\ ~\E n \in 1..Len(Warnings(t)) :
                                     MentionsPlaceholder(Warnings(t)[n])
                           THEN Append(Warnings(t),
                                       [kind |-> "placeholders",
                                        name |-> <<>>])
                           ELSE Warnings(t)]
        /\ UNCHANGED <<pc, w_out, schema_ctx, g_out, resp, call, limited,
                       relimited, multiple, decided, idents, detected,
                       classified, checked, g_again, settings_cache,
                       extracted, schema_json, schema_error, p_out, invoked>>

\* Step 6: the schema consistency check.
GateStep6 ==
    \E t \in Threads :
        /\ frames[t].pc = "step_6"
        /\ \E schema_issues \in
                  IF ~frames[t].schema.is_none /\ ~is_empty(frames[t].schema)
                     /\ is_read_only_statement(frames[t].statement_type)
                  THEN check_schema_consistency(frames[t].modified_sql,
                                                frames[t].schema)
                  ELSE {<<>>} :
               frames' = [frames EXCEPT
                             ![t].pc = "step_7",
                             ![t].schema_issues = schema_issues,
                             ![t].warnings = Warnings(t) \o schema_issues]
        /\ UNCHANGED <<pc, w_out, schema_ctx, g_out, resp, call, limited,
                       relimited, multiple, decided, idents, detected,
                       classified, checked, g_again, settings_cache,
                       extracted, schema_json, schema_error, p_out, invoked>>

\* Step 7: the status, and the return.
GateStep7 ==
    \E t \in Threads :
        /\ frames[t].pc = "step_7"
        /\ frames' =
               [frames EXCEPT
                   ![t].pc = "done",
                   ![t].result =
                       PolicyGateOutput(
                           TRUE, frames[t].modified_sql,
                           determine_status(frames[t].statement_type,
                                            frames[t].has_placeholders,
                                            Len(frames[t].schema_issues) > 0),
                           Warnings(t), frames[t].policy_errors)]
        /\ UNCHANGED <<pc, w_out, schema_ctx, g_out, resp, call, limited,
                       relimited, multiple, decided, idents, detected,
                       classified, checked, g_again, settings_cache,
                       extracted, schema_json, schema_error, p_out, invoked>>

NextThreads ==
    EnterGate \/ GateStep1 \/ GateStep2 \/ GateStep3 \/ GateStep4
        \/ GateStep5 \/ GateStep6 \/ GateStep7

SpecThreads == InitThreads /\ [][NextThreads]_vars

(***************************************************************************)
(* run_pipeline from the request on: stage 1 parses the schema, and a      *)
(* schema error ends the pipeline before stages 2 to 4                     *)
(***************************************************************************)

MaxJsonTables == 2
MaxJsonColumns == 1

\* The sequences of at most n members of S.
SeqsUpTo(S, n) == UNION {[1..k -> S] : k \in 0..n}

\* What a request can carry as a column, as a table and as schema_json.
SchemaJsons ==
    LET JsonColumns ==
            {JDict("type" :> JStr(<<"int">>)),
             JDict("name" :> JInt(7)),
             JDict("name" :> JStr(<<"ID">>) @@ "type" :> JStr(<<"int">>))}
        JsonColumnLists ==
            {JStr(<<"id">>)}
                \cup {JList(items) : items \in SeqsUpTo(JsonColumns, MaxJsonColumns)}
        JsonTables ==
            {JStr(<<"users">>)}
                \cup {JDict("columns" :> columns) : columns \in JsonColumnLists}
                \cup {JDict("name" :> JInt(7) @@ "columns" :> columns) :
                         columns \in JsonColumnLists}
                \cup {JDict("name" :> JStr(<<" ", "USERS", " ">>)
                                @@ "columns" :> columns) :
                         columns \in JsonColumnLists}
                \cup {JDict("name" :> JStr(<<" ", "USERS", " ">>))}
    IN  {JNone, JStr(<<"users">>), JList(<<>>), JDict(<<>>),
         JDict("tables" :> JStr(<<"users">>)), JDict("tables" :> JNone)}
            \cup {JDict("tables" :> JList(items)) :
                     items \in SeqsUpTo(JsonTables, MaxJsonTables)}

\* What the SQL writer can hand on: a query, the fallback of
\* run_sql_writer_fn, a statement of another kind and one of no kind.
PipelineTexts ==
    {<<"SELECT", " ", "id", " ", "FROM", " ", "users">>,
     <<"SELECT", " ", "*", " ", "FROM", " ", "<", "TABLE", ">">>,
     <<"DROP", " ", "TABLE", " ", "users">>,
     <<"EXPLAIN", " ", "x">>}

InitPipeline ==
    /\ pc = "request"
    /\ schema_json \in SchemaJsons
    /\ schema_error = NoSchemaError
    /\ p_out = NoPlannerOutput
    /\ invoked = {}
    /\ w_out = NoWriterOutput
    /\ schema_ctx = None
    /\ g_out = NoGateOutput
    /\ resp = NoResponse
    /\ call = NoCall
    /\ limited = NoLimit
    /\ relimited = NoLimit
    /\ multiple = FALSE
    /\ decided = "error"
    /\ idents = NoIdentifiers
    /\ detected = <<>>
    /\ classified = "UNKNOWN"
    /\ checked = <<>>
    /\ g_again = NoGateOutput
    /\ frames = <<>>
    /\ settings_cache = <<>>
    /\ extracted = NoIdentifiers

\* Stage 1: schema, schema_error = parse_schema_fn(schema_json)
ParseSchemaFn ==
    /\ pc = "request"
    /\ LET parsed == parse_schema_fn(schema_json)
       IN  /\ schema_ctx' = parsed.schema
           /\ schema_error' = parsed.schema_error
    /\ pc' = "parsed"
    /\ UNCHANGED <<w_out, g_out, resp, call, limited, relimited, multiple,
                   decided, idents, detected, classified, checked, g_again,
                   frames, settings_cache, extracted, schema_json, p_out,
                   invoked>>

\* Stage 1, if schema_error: the response is built from empty outputs and
\* returned.
ReturnSchemaError ==
    /\ pc = "parsed"
    /\ IsSchemaError(schema_error)
    /\ resp' = build_response_fn(NoPlannerOutput, NoWriterOutput,
                                 [warnings |-> <<>>, status |-> "error",
                                  sql |-> <<>>, policy_errors |-> <<>>],
                                 schema_error)
    /\ pc' = "responded"
    /\ UNCHANGED <<w_out, schema_ctx, g_out, call, limited, relimited,
                   multiple, decided, idents, detected, classified, checked,
                   g_again, frames, settings_cache, extracted, schema_json,
                   schema_error, p_out, invoked>>

\* Stage 2: the planner answers.
RunPlanner ==
    /\ pc = "parsed"
    /\ ~IsSchemaError(schema_error)
    /\ p_out' \in PlannerOutputs
    /\ invoked' = invoked \cup {"run_planner_fn"}
    /\ pc' = "planned"
    /\ UNCHANGED <<w_out, schema_ctx, g_out, resp, call, limited, relimited,
                   multiple, decided, idents, detected, classified, checked,
                   g_again, frames, settings_cache, extracted, schema_json,
                   schema_error>>

\* Stage 3: the SQL writer answers.
RunSqlWriter ==
    /\ pc = "planned"
    /\ \E sql \in PipelineTexts, placeholders \in WriterPlaceholders :
           w_out' = [sql |-> sql, placeholders |-> placeholders]
    /\ invoked' = invoked \cup {"run_sql_writer_fn"}
    /\ pc' = "written"
    /\ UNCHANGED <<schema_ctx, g_out, resp, call, limited, relimited,
                   multiple, decided, idents, detected, classified, checked,
                   g_again, frames, settings_cache, extracted, schema_json,
                   schema_error, p_out>>

\* Stage 4: the policy gate.
RunPolicyGateFn ==
    /\ pc = "written"
    /\ \E out \in run_policy_gate(w_out.sql, schema_ctx,
                                  Len(w_out.placeholders) > 0) :
           g_out' = out
    /\ invoked' = invoked \cup {"run_policy_gate_fn"}
    /\ pc' = "checked"
    /\ UNCHANGED <<w_out, schema_ctx, resp, call, limited, relimited,
                   multiple, decided, idents, detected, classified, checked,
                   g_again, frames, settings_cache, extracted, schema_json,
                   schema_error, p_out>>

\* Stage 5: the response.
BuildResponseFn ==
    /\ pc = "checked"
    /\ resp' = build_response_fn(p_out, w_out, g_out, NoSchemaError)
    /\ pc' = "responded"
    /\ UNCHANGED <<w_out, schema_ctx, g_out, call, limited, relimited,
                   multiple, decided, idents, detected, classified, checked,
                   g_again, frames, settings_cache, extracted, schema_json,
                   schema_error, p_out, invoked>>

NextPipeline ==
    ParseSchemaFn \/ ReturnSchemaError \/ RunPlanner \/ RunSqlWriter
        \/ RunPolicyGateFn \/ BuildResponseFn

SpecPipeline == InitPipeline /\ [][NextPipeline]_vars

(***************************************************************************)
(* Properties                                                              *)
(***************************************************************************)

\* What the gate was given.
InputSql == w_out.sql
WriterHint == Len(w_out.placeholders) > 0
InputType == classify_statement(InputSql)
Gated == pc \in {"gated", "responded"}
SchemaGiven == ~schema_ctx.is_none /\ ~is_empty(schema_ctx)

\* The values n of the LIMIT n clauses of a text.
LimitValues(s) ==
    {IntOf(SubSeq(s, LimitMatch(s, i)[1], LimitMatch(s, i)[2])) :
        i \in LimitStarts(s, 1)}

\* C1: a statement that classifies as UNKNOWN, the empty and the blank text
\* among them, fails with passed = false, status ERROR, the one "unable to
\* determine statement type" error and no warning, whatever the schema and
\* the hint; the text is returned as it came.
C1_UnknownFailsImmediately ==
    (Gated /\ (InputType = "UNKNOWN" \/ Strip(InputSql) = <<>>))
        => /\ g_out.passed = FALSE
           /\ g_out.status = "error"
           /\ g_out.policy_errors = <<UnknownTypeError>>
           /\ g_out.warnings = <<>>
           /\ g_out.sql = InputSql

\* A blank text was rejected although a schema and the writer's hint were
\* given.
C1_Witness ==
    /\ pc = "gated"
    /\ InputSql = <<" ">>
    /\ SchemaGiven /\ WriterHint
    /\ ~g_out.passed

\* C2: a statement with a recognized keyword and several statements fails
\* with passed = false, status ERROR, exactly one policy error and no
\* warning, whatever its kind, the schema and the hint.
C2_MultipleStatementsFail ==
    (Gated /\ InputType # "UNKNOWN" /\ check_multiple_statements(InputSql))
        => /\ g_out.passed = FALSE
           /\ g_out.status = "error"
           /\ g_out.policy_errors = <<MultipleStatementsError>>
           /\ g_out.warnings = <<>>
           /\ g_out.sql = InputSql

\* Two statements, the first a DELETE, the second with a LIMIT above the
\* maximum, were rejected without any warning.
C2_Witness ==
    /\ pc = "gated"
    /\ InputSql = <<"DELETE", ";", " ", "LIMIT", " ", "900">>
    /\ SchemaGiven /\ WriterHint
    /\ ~g_out.passed /\ g_out.warnings = <<>>

\* C3: passed = false, status = ERROR and policy_errors non-empty are
\* equivalent, and a passing output has a status other than ERROR.
C3_ErrorsIffNotPassed ==
    Gated
        => /\ (g_out.passed = FALSE) <=> (g_out.status = "error")
           /\ (g_out.status = "error") <=> (g_out.policy_errors # <<>>)
           /\ g_out.passed
                  => g_out.status \in {"validated", "draft", "review_required"}

\* A modifying statement passed with warnings and without errors.
C3_Witness ==
    /\ pc = "gated"
    /\ g_out.passed /\ g_out.status = "review_required"
    /\ g_out.warnings # <<>> /\ g_out.policy_errors = <<>>

\* C4: determine_status gives REVIEW_REQUIRED for every type that is not
\* read-only, and for SELECT and WITH gives DRAFT when there are
\* placeholders or schema issues and VALIDATED otherwise; never ERROR.
C4_StatusDecision ==
    (pc = "returned" /\ call.fn = "determine_status")
        => /\ decided \in {"validated", "draft", "review_required"}
           /\ call.statement_type \notin {"SELECT", "WITH"}
                  => decided = "review_required"
           /\ call.statement_type \in {"SELECT", "WITH"}
                  => decided = (IF call.has_placeholders
                                   \/ call.has_schema_issues
                                THEN "draft" ELSE "validated")

\* WITH with schema issues alone was decided DRAFT.
C4_Witness ==
    /\ pc = "returned" /\ call.fn = "determine_status"
    /\ call.statement_type = "WITH"
    /\ ~call.has_placeholders /\ call.has_schema_issues
    /\ decided = "draft"

\* C5: passed is true exactly when the statement is classified and single,
\* whatever its kind, LIMIT, placeholders, hint and schema.
C5_PassedDependsOnTwoChecks ==
    Gated
        => g_out.passed
               = (InputType # "UNKNOWN" /\ ~check_multiple_statements(InputSql))

\* A statement passed although LIMIT was rewritten, the writer reported
\* placeholders and the schema has neither its table nor its column.
C5_Witness ==
    /\ pc = "gated"
    /\ g_out.passed
    /\ WriterHint
    /\ \E n \in 1..Len(g_out.warnings) :
           g_out.warnings[n].kind = "limit_enforced"
    /\ \E n \in 1..Len(g_out.warnings) :
           g_out.warnings[n].kind = "table_not_found"
    /\ \E n \in 1..Len(g_out.warnings) :
           g_out.warnings[n].kind = "column_not_found"

\* C6: after enforce_limit on a read-only statement no LIMIT n with n above
\* max_limit remains in the returned text.
C6_NoLimitAboveMax ==
    (pc = "returned" /\ call.fn = "enforce_limit"
     /\ is_read_only_statement(call.statement_type))
        => \A n \in LimitValues(limited.sql) : n <= call.max_limit

\* C7: a read-only statement that passes comes back with a LIMIT n clause,
\* n at most max_row_limit, and with LIMIT max_row_limit when it had no
\* LIMIT clause.
C7_PassingReadOnlyHasLimit ==
    (Gated /\ g_out.passed /\ is_read_only_statement(InputType))
        => /\ \E n \in LimitValues(g_out.sql) : n <= max_row_limit
           /\ LimitValues(InputSql) = {}
                  => max_row_limit \in LimitValues(g_out.sql)

\* A SELECT without LIMIT passed and came back with LIMIT max_row_limit.
C7_Witness ==
    /\ pc = "gated"
    /\ g_out.passed /\ InputType = "SELECT"
    /\ LimitValues(InputSql) = {}
    /\ LimitValues(g_out.sql) = {max_row_limit}

\* C8: enforce_limit applied to its own output, with the same max_limit and
\* type, returns that output with modified = false.
C8_EnforceLimitIdempotent ==
    pc = "returned_again"
        => relimited.sql = limited.sql /\ relimited.modified = FALSE

\* The first call appended a clause to a text that ended in a word, the
\* second call left it alone.
C8_Witness ==
    /\ pc = "returned_again"
    /\ call.statement_type = "WITH"
    /\ call.sql # <<>> /\ call.sql[Len(call.sql)] = "x"
    /\ LimitValues(call.sql) = {}
    /\ limited.modified
    /\ relimited = [sql |-> limited.sql, modified |-> FALSE]

\* C9: a failing gate offers no SQL: neither the PolicyGateOutput nor the
\* QueryResponse built from it carries the rejected text.
C9_NoSqlOnFailure ==
    /\ (Gated /\ ~g_out.passed /\ InputSql # <<>>) => g_out.sql # InputSql
    /\ (pc = "responded" /\ ~g_out.passed) => resp.sql.is_none

\* The state of an SQL lexer before s[i]: outside every literal, inside a
\* single-quoted or inside a double-quoted one.
RECURSIVE QuoteState(_, _)
QuoteState(s, i) ==
    IF i = 1 THEN "out"
    ELSE LET before == QuoteState(s, i - 1)
         IN  IF before = "out"
             THEN (IF s[i - 1] = "'" THEN "single"
                   ELSE IF s[i - 1] = "\"" THEN "double" ELSE "out")
             ELSE IF before = "single"
             THEN (IF s[i - 1] = "'" THEN "out" ELSE "single")
             ELSE (IF s[i - 1] = "\"" THEN "out" ELSE "double")

\* Every literal is closed, and each semicolon lies inside a literal or is
\* followed by whitespace only.
SemicolonsQuotedOrTrailing(s) ==
    /\ QuoteState(s, Len(s) + 1) = "out"
    /\ \A i \in 1..Len(s) :
           s[i] = ";"
               => \/ QuoteState(s, i) # "out"
                  \/ \A j \in (i + 1)..Len(s) : s[j] \in WhiteSpace

\* C10: check_multiple_statements is false for a text whose semicolons all
\* lie inside quoted literals or are trailing.
C10_QuotedSemicolonsAreNotSeparators ==
    (pc = "returned" /\ call.fn = "check_multiple_statements"
     /\ SemicolonsQuotedOrTrailing(call.sql))
        => multiple = FALSE

\* The text with the contents of its quoted literals neutralized.
Neutralized(s) == SubQuoted(SubQuoted(s, "'"), "\"")

\* The atoms of c that begin the non-blank part of a segment: neither
\* whitespace nor a semicolon, and every such atom before it lies beyond a
\* semicolon.
SegmentHeads(c) ==
    {i \in 1..Len(c) :
        /\ c[i] \notin WhiteSpace \cup {";"}
        /\ \A j \in 1..(i - 1) :
               c[j] \notin WhiteSpace \cup {";"}
                   => \E k \in (j + 1)..(i - 1) : c[k] = ";"}

LimitedReadOnly ==
    /\ pc = "returned" /\ call.fn = "enforce_limit"
    /\ is_read_only_statement(call.statement_type)

\* Index of the last atom of s that is not whitespace (0 when there is none).
LastInk(s) ==
    IF \A k \in 1..Len(s) : s[k] \in WhiteSpace THEN 0
    ELSE CHOOSE k \in 1..Len(s) :
             /\ s[k] \notin WhiteSpace
             /\ \A j \in (k + 1)..Len(s) : s[j] \in WhiteSpace

\* C12: for a read-only statement without a LIMIT n clause enforce_limit
\* reports modified and returns the text up to its last atom that is not
\* whitespace followed by " LIMIT max_limit"; when that last atom is a
\* semicolon the clause stands before it and the result ends with the
\* semicolon.  The result has exactly one LIMIT n clause.
C12_LimitAppended ==
    (LimitedReadOnly /\ LimitStarts(call.sql, 1) = {})
        => LET n == LastInk(call.sql)
               clause == <<" ", "LIMIT", " ", StrOf(call.max_limit)>>
           IN  /\ limited.modified = TRUE
               /\ limited.sql =
                      (IF n > 0 /\ call.sql[n] = ";"
                       THEN SubSeq(call.sql, 1, n - 1) \o clause \o <<";">>
                       ELSE SubSeq(call.sql, 1, n) \o clause)
               /\ Cardinality(LimitStarts(limited.sql, 1)) = 1
               /\ LimitValues(limited.sql) = {call.max_limit}

\* The clause was put before the semicolon of a text that ends with a
\* semicolon and a blank.
C12_Witness ==
    /\ LimitedReadOnly
    /\ call.sql = <<"SELECT", ";", " ">>
    /\ limited.modified
    /\ limited.sql = <<"SELECT", " ", "LIMIT", " ", StrOf(call.max_limit), ";">>

\* The first LIMIT n clause of s: the indices of its keyword and of the last
\* numeral of n.
FirstLimit(s) ==
    LET i == Min(LimitStarts(s, 1))
    IN  <<i, LimitMatch(s, i)[2]>>

\* The value of the LIMIT n clause that starts at s[i].
LimitValueAt(s, i) ==
    IntOf(SubSeq(s, LimitMatch(s, i)[1], LimitMatch(s, i)[2]))

\* C13: when the LIMIT n clause of a read-only statement has n above
\* max_limit and every other LIMIT clause is within bounds, enforce_limit
\* reports modified and changes that clause alone: the text before it and
\* the text after it, the other LIMIT clauses included, come back as given.
C13_OnlyTheExceedingClauseChanges ==
    (/\ LimitedReadOnly
     /\ LimitStarts(call.sql, 1) # {}
     /\ LimitValueAt(call.sql, FirstLimit(call.sql)[1]) > call.max_limit
     /\ \A i \in LimitStarts(call.sql, 1) :
            i # FirstLimit(call.sql)[1]
                => LimitValueAt(call.sql, i) <= call.max_limit)
        => LET i == FirstLimit(call.sql)[1]
               e == FirstLimit(call.sql)[2]
               rest == Len(call.sql) - e
               out == limited.sql
           IN  /\ limited.modified = TRUE
               /\ Len(out) >= (i - 1) + rest
               /\ SubSeq(out, 1, i - 1) = SubSeq(call.sql, 1, i - 1)
               /\ SubSeq(out, Len(out) - rest + 1, Len(out))
                      = SubSeq(call.sql, e + 1, Len(call.sql))

\* The two cases in which enforce_limit has nothing to do: the type is not
\* read-only, or the first LIMIT n clause has n <= max_limit.
NothingToEnforce ==
    \/ ~is_read_only_statement(call.statement_type)
    \/ /\ LimitStarts(call.sql, 1) # {}
       /\ LimitValueAt(call.sql, FirstLimit(call.sql)[1]) <= call.max_limit

\* C14: enforce_limit returns the text as given with modified = false when
\* the type is not SELECT or WITH or the existing LIMIT n has n <= max_limit,
\* and in no other case: otherwise modified is true and the text differs.
C14_UnmodifiedInExactlyTwoCases ==
    (pc = "returned" /\ call.fn = "enforce_limit")
        => /\ NothingToEnforce
                  => limited = [sql |-> call.sql, modified |-> FALSE]
           /\ ~NothingToEnforce
                  => limited.modified = TRUE /\ limited.sql # call.sql

\* A SELECT whose LIMIT equals max_limit came back as given.
C14_Witness ==
    /\ LimitedReadOnly
    /\ LimitValues(call.sql) = {call.max_limit}
    /\ limited = [sql |-> call.sql, modified |-> FALSE]

\* t spells a placeholder token: "<", an upper-case letter, upper-case
\* letters, digits and underscores, ">".
IsPlaceholderToken(t) ==
    /\ Len(t) >= 3
    /\ t[1] = "<" /\ t[Len(t)] = ">"
    /\ t[2] \in UpperWords
    /\ \A k \in 3..(Len(t) - 1) : t[k] \in UpperWords \cup Digits \cup {"_"}

\* Where token t occurs in text s.
OccurrencesOf(t, s) ==
    {i \in 1..Len(s) :
        i + Len(t) - 1 <= Len(s) /\ SubSeq(s, i, i + Len(t) - 1) = t}

\* The placeholder tokens that occur in s.
TokensIn(s) ==
    {t \in {SubSeq(s, i, j) : i \in 1..Len(s), j \in 1..Len(s)} :
        IsPlaceholderToken(t)}

\* C15: detect_placeholders returns one entry for each distinct placeholder
\* token of the text and no other, no token twice, in the order in which
\* the tokens first occur; for a text without a token the list is empty.
C15_PlaceholdersDistinctInOrder ==
    (pc = "returned" /\ call.fn = "detect_placeholders")
        => /\ {detected[n].token : n \in 1..Len(detected)} = TokensIn(call.sql)
           /\ \A a, b \in 1..Len(detected) :
                  a < b => /\ detected[a].token # detected[b].token
                           /\ Min(OccurrencesOf(detected[a].token, call.sql))
                                  < Min(OccurrencesOf(detected[b].token,
                                                      call.sql))
           /\ TokensIn(call.sql) = {} => detected = <<>>

\* A token that occurs twice around another one was returned once, first.
C15_Witness ==
    /\ pc = "returned" /\ call.fn = "detect_placeholders"
    /\ call.sql = <<"<", "T", ">", "<", "T", "7", ">", "<", "T", ">">>
    /\ Len(detected) = 2
    /\ detected[1].token = <<"<", "T", ">">>
    /\ detected[2].token = <<"<", "T", "7", ">">>

\* The gate let the statement pass.
Passed == Gated /\ g_out.passed

\* Some warning of the gate's output is of this kind.
Warned(kind) == \E n \in 1..Len(g_out.warnings) : g_out.warnings[n].kind = kind

\* C16: on a passing path, when the returned SQL has a placeholder token or
\* the writer reported placeholders, the warnings hold the placeholder
\* warning and a read-only statement is DRAFT; when neither is the case the
\* placeholder warning is absent.
C16_PlaceholderFlagIsTextOrHint ==
    Passed
        => LET flag == TokensIn(g_out.sql) # {} \/ WriterHint
           IN  /\ flag => /\ Warned("placeholders")
                          /\ is_read_only_statement(InputType)
                                 => g_out.status = "draft"
               /\ ~flag => ~Warned("placeholders")

\* A SELECT without any token was made DRAFT by the writer's hint alone.
C16_Witness ==
    /\ pc = "gated" /\ g_out.passed
    /\ InputType = "SELECT"
    /\ TokensIn(g_out.sql) = {} /\ WriterHint
    /\ ~Warned("table_not_found") /\ ~Warned("column_not_found")
    /\ Warned("placeholders") /\ g_out.status = "draft"

\* The warnings of the gate's output that are modifying-statement warnings.
ModifyingWarnings ==
    {n \in 1..Len(g_out.warnings) : g_out.warnings[n].kind = "modifying"}

\* C17: a passing statement of one of the nine modifying kinds is
\* REVIEW_REQUIRED and has exactly one modifying-statement warning, the one
\* of its own kind; a passing SELECT or WITH has none.
C17_ModifyingKindsWarnedAndReviewed ==
    Passed
        => IF InputType \in {"INSERT", "UPDATE", "DELETE", "DROP", "TRUNCATE",
                             "ALTER", "CREATE", "GRANT", "REVOKE"}
           THEN /\ g_out.status = "review_required"
                /\ Cardinality(ModifyingWarnings) = 1
                /\ \A n \in ModifyingWarnings :
                       g_out.warnings[n].name = <<InputType>>
           ELSE /\ InputType \in {"SELECT", "WITH"}
                /\ ModifyingWarnings = {}

\* A TRUNCATE for which the writer reported placeholders passed as
\* REVIEW_REQUIRED with the TRUNCATE warning first.
C17_Witness ==
    /\ pc = "gated" /\ g_out.passed
    /\ InputType = "TRUNCATE" /\ WriterHint
    /\ g_out.status = "review_required"
    /\ g_out.warnings[1] = [kind |-> "modifying", name |-> <<"TRUNCATE">>]

\* C18: with a schema of no tables, and for a statement that is not
\* read-only with any schema, the gate returns what it returns without a
\* schema, and no not-found warning.
C18_SchemaCheckOnlyForReadOnlyWithTables ==
    (Gated /\ (schema_ctx.is_none \/ is_empty(schema_ctx)
               \/ ~is_read_only_statement(InputType)))
        => /\ g_out \in run_policy_gate(InputSql, None, WriterHint)
           /\ ~Warned("table_not_found")
           /\ ~Warned("column_not_found")

\* A SELECT from a table passed as VALIDATED with a schema of no tables.
C18_Witness ==
    /\ pc = "gated" /\ g_out.passed
    /\ InputSql = <<"SELECT", " ", "*", " ", "FROM", " ", "users">>
    /\ ~schema_ctx.is_none /\ is_empty(schema_ctx)
    /\ g_out.status = "validated"

\* The eleven keywords classify_statement knows.
Keywords ==
    {"SELECT", "WITH", "INSERT", "UPDATE", "DELETE", "DROP", "TRUNCATE",
     "ALTER", "CREATE", "GRANT", "REVOKE"}

\* The first atom of s that is not whitespace spells k in some letter case.
BeginsWith(s, k) ==
    \E i \in 1..Len(s) :
        /\ \A j \in 1..(i - 1) : s[j] \in WhiteSpace
        /\ s[i] \in {k, Lower(k)}

\* C19: classify_statement returns kind K exactly when the text begins,
\* after leading whitespace and in any letter case, with keyword K, and
\* UNKNOWN exactly when it begins with none; the result is the same for the
\* text in upper case, in lower case and with more leading whitespace, and
\* at most one keyword matches, so the order of the tests does not matter.
C19_ClassifiedByLeadingKeyword ==
    (pc = "returned" /\ call.fn = "classify_statement")
        => /\ \A k \in Keywords : (classified = k) <=> BeginsWith(call.sql, k)
           /\ (classified = "UNKNOWN")
                  <=> \A k \in Keywords : ~BeginsWith(call.sql, k)
           /\ classify_statement(UpperSeq(call.sql)) = classified
           /\ classify_statement(LowerSeq(call.sql)) = classified
           /\ \A w \in WhiteSpace :
                  classify_statement(<<w>> \o call.sql) = classified
           /\ Cardinality({n \in 1..Len(ClassifyOrder) :
                              StartsWith(UpperSeq(Strip(call.sql)),
                                         ClassifyOrder[n])}) <= 1

\* A lower-case drop after a blank and a newline was classified DROP.
C19_Witness ==
    /\ pc = "returned" /\ call.fn = "classify_statement"
    /\ call.sql = <<" ", "\n", "drop", " ", "x">>
    /\ classified = "DROP"

\* The extracted table names that are the name of no table of the schema,
\* and the extracted column names that are a column of no table, letter
\* case aside.
MissingTables ==
    {n \in 1..Len(idents.tables) :
        \A t \in 1..Len(schema_ctx.tables) :
            Lower(schema_ctx.tables[t].name) # Lower(idents.tables[n][1])}
MissingColumns ==
    {n \in 1..Len(idents.columns) :
        \A t \in 1..Len(schema_ctx.tables) :
            \A c \in 1..Len(schema_ctx.tables[t].columns) :
                Lower(schema_ctx.tables[t].columns[c])
                    # Lower(idents.columns[n][1])}

\* C20: check_identifiers returns one table warning for each extracted
\* table name that is missing and one column warning for each extracted
\* column name that is missing from every table, nothing else, the table
\* warnings first; the list is empty when nothing is missing.
C20_OneWarningPerMissingIdentifier ==
    (pc = "returned" /\ call.fn = "check_identifiers")
        => /\ Len(checked)
                  = Cardinality(MissingTables) + Cardinality(MissingColumns)
           /\ \A k \in 1..Len(checked) :
                  checked[k].kind = (IF k <= Cardinality(MissingTables)
                                     THEN "table_not_found"
                                     ELSE "column_not_found")
           /\ \A n \in MissingTables :
                  Cardinality({k \in 1..Len(checked) :
                      checked[k] = [kind |-> "table_not_found",
                                    name |-> idents.tables[n]]}) = 1
           /\ \A n \in MissingColumns :
                  Cardinality({k \in 1..Len(checked) :
                      checked[k] = [kind |-> "column_not_found",
                                    name |-> idents.columns[n]]}) = 1
           /\ (MissingTables = {} /\ MissingColumns = {}) => checked = <<>>

\* Table users was found as USERS and column name in a table the statement
\* does not name; table x and column x were reported, the table first.
C20_Witness ==
    /\ pc = "returned" /\ call.fn = "check_identifiers"
    /\ schema_ctx.tables = <<[name |-> "USERS", columns |-> <<"ID">>],
                             [name |-> "T", columns |-> <<"name">>]>>
    /\ idents = [tables |-> <<(<<"x">>), (<<"users">>)>>,
                 columns |-> <<(<<"name">>), (<<"x">>)>>]
    /\ checked = <<[kind |-> "table_not_found", name |-> <<"x">>],
                   [kind |-> "column_not_found", name |-> <<"x">>]>>

\* C21: two invocations of run_policy_gate with the same SQL, schema and hint
\* return identical records, the warnings in the same order.
C21_SameArgumentsSameOutput == pc = "gated_again" => g_again = g_out

\* C22: when calls of run_policy_gate are interleaved, each call returns a
\* result the gate returns for its arguments when run alone, a step of one
\* call changes the locals of no other call, and the cached Settings object
\* is never modified once it exists.
C22_ReturnsAsAlone ==
    \A t \in DOMAIN frames :
        frames[t].pc = "done" =>
            frames[t].result \in
                run_policy_gate(frames[t].sql, frames[t].schema,
                                frames[t].hint)
C22_OwnLocalsOnly ==
    /\ \A t, u \in DOMAIN frames :
           (frames'[t] # frames[t] /\ u # t) => frames'[u] = frames[u]
    /\ settings_cache # <<>> => settings_cache' = settings_cache
C22_CallsIndependent == []C22_ReturnsAsAlone /\ [][C22_OwnLocalsOnly]_vars
\* One call has returned its warnings while another, with warnings of its
\* own, is between two steps.
C22_Witness ==
    \E t, u \in DOMAIN frames :
        /\ frames[t].pc = "done" /\ Len(frames[t].result.warnings) > 1
        /\ frames[u].pc = "step_6" /\ Len(frames[u].warnings) > 0
        /\ frames[u].sql # frames[t].sql

\* The not-found warnings of the gate's output, in their order.
NotFoundWarning(w) == w.kind \in {"table_not_found", "column_not_found"}
SchemaWarnings == SelectSeq(g_out.warnings, NotFoundWarning)

\* C23: for a passing read-only statement the LIMIT-enforced warning is
\* present exactly when the returned SQL differs from the input SQL; the
\* returned SQL is the text enforce_limit produced, and the placeholder
\* warning and the not-found warnings are those of that text.
C23_LimitWarningIffRewritten ==
    (Passed /\ is_read_only_statement(InputType))
        => /\ Warned("limit_enforced") <=> g_out.sql # InputSql
           /\ g_out.sql = enforce_limit(InputSql, max_row_limit, InputType).sql
           /\ Warned("placeholders")
                  <=> (Len(detect_placeholders(g_out.sql)) > 0 \/ WriterHint)
           /\ SchemaWarnings \in SchemaIssues(g_out.sql, schema_ctx, InputType)

\* A SELECT with LIMIT 900 came back rewritten, with the LIMIT-enforced
\* warning and with not-found warnings for the rewritten text.
C23_Witness ==
    /\ pc = "gated" /\ g_out.passed
    /\ InputType = "SELECT"
    /\ 900 \in LimitValues(InputSql)
    /\ g_out.sql # InputSql
    /\ Warned("limit_enforced")
    /\ Len(SchemaWarnings) > 0

\* The step of run_policy_gate that adds a warning of this kind.
StepOf(w) ==
    CASE w.kind = "modifying" -> 3
      [] w.kind = "limit_enforced" -> 4
      [] w.kind = "placeholders" -> 5
      [] OTHER -> 6

\* C24: the warnings of a passing statement are in the order of the steps
\* that add them: the modifying-statement warning, the LIMIT-enforced
\* warning, the placeholder warning, then the not-found warnings, at most one
\* of each of the first three; and every warning a step added is in the
\* list.
C24_WarningsInStepOrder ==
    Passed
        => /\ \A i, j \in 1..Len(g_out.warnings) :
                  i < j => \/ StepOf(g_out.warnings[i]) < StepOf(g_out.warnings[j])
                           \/ /\ StepOf(g_out.warnings[i]) = 6
                              /\ StepOf(g_out.warnings[j]) = 6
           /\ ~is_read_only_statement(InputType) => Warned("modifying")
           /\ g_out.sql # InputSql => Warned("limit_enforced")
           /\ (TokensIn(g_out.sql) # {} \/ WriterHint) => Warned("placeholders")
           /\ SchemaWarnings \in SchemaIssues(g_out.sql, schema_ctx, InputType)

\* A SELECT passed with the LIMIT-enforced warning, the placeholder warning
\* and two not-found warnings, in this order.
C24_Witness ==
    /\ pc = "gated" /\ g_out.passed
    /\ Len(g_out.warnings) = 4
    /\ g_out.warnings[1].kind = "limit_enforced"
    /\ g_out.warnings[2].kind = "placeholders"
    /\ g_out.warnings[3].kind = "table_not_found"
    /\ g_out.warnings[4].kind = "column_not_found"

\* The first word of a text, in upper case.
LeadingKeyword(sql) ==
    IF Strip(sql) = <<>> THEN "" ELSE Upper(Strip(sql)[1])

\* C25: a single statement whose leading keyword is one of the forbidden
\* keywords of the settings comes out of the gate REVIEW_REQUIRED.
C25_ForbiddenKeywordsAreReviewed ==
    (pc = "gated"
     /\ LeadingKeyword(InputSql) \in forbidden_keywords
     /\ ~check_multiple_statements(InputSql))
        => g_out.status = "review_required"

\* A list without repetition.
DuplicateFree(l) == \A a, b \in 1..Len(l) : a # b => l[a] # l[b]

\* name is a lower-case name that is no keyword of extract_identifiers and
\* has no part that stands for a placeholder token (the texts handed in do
\* not hold the word PLACEHOLDER themselves).
PlainIdentifier(name) ==
    /\ LowerSeq(name) = name
    /\ NotKeyword(name)
    /\ \A n \in 1..Len(name) : name[n] # "placeholder"

\* C26: both lists extract_identifiers returns are duplicate-free, lower-case
\* and hold no keyword and no name derived from a placeholder token.
C26_NoPlaceholderOrKeywordReported ==
    (pc = "returned" /\ call.fn = "extract_identifiers")
        => /\ DuplicateFree(extracted.tables)
           /\ DuplicateFree(extracted.columns)
           /\ \A n \in 1..Len(extracted.tables) :
                  PlainIdentifier(extracted.tables[n])
           /\ \A n \in 1..Len(extracted.columns) :
                  PlainIdentifier(extracted.columns[n])

\* data is no object with a "name" of type string.
LacksStringName(data) ==
    \/ data.type # "dict"
    \/ "name" \notin DOMAIN data.fields
    \/ data.fields["name"].type # "str"

\* A table of the request, or one of its columns, lacks a string name.
TableLacksName(data) ==
    \/ LacksStringName(data)
    \/ /\ "columns" \in DOMAIN data.fields
       /\ data.fields["columns"].type = "list"
       /\ \E n \in 1..Len(data.fields["columns"].items) :
              LacksStringName(data.fields["columns"].items[n])

\* The schema of the request is not an object, its "tables" is not a list,
\* or a table or column lacks a string name.
InvalidSchema ==
    \/ schema_json.type \notin {"NoneType", "dict"}
    \/ /\ schema_json.type = "dict"
       /\ "tables" \in DOMAIN schema_json.fields
       /\ \/ schema_json.fields["tables"].type # "list"
          \/ \E n \in 1..Len(schema_json.fields["tables"].items) :
                 TableLacksName(schema_json.fields["tables"].items[n])

\* C27: for such a schema parse_schema raises and no table of it reaches
\* the pipeline; run_pipeline answers with status error, no SQL, no
\* warnings and the one policy error "Invalid schema format: ...", and
\* calls neither the planner nor the SQL writer nor the policy gate.
C27_SchemaErrorEndsThePipeline ==
    InvalidSchema
        => /\ invoked = {}
           /\ pc # "request"
                  => /\ parse_schema(schema_json).raised
                     /\ IsSchemaError(schema_error)
                     /\ schema_ctx = SchemaContext(<<>>)
           /\ pc \notin {"request", "parsed"}
                  => /\ pc = "responded"
                     /\ resp.status = "error"
                     /\ resp.sql = NoSql
                     /\ resp.warnings = <<>>
                     /\ Len(resp.policy_errors) = 1
                     /\ resp.policy_errors[1]
                            = <<"Invalid schema format: ">> \o schema_error[1]

\* A schema whose first table is well-formed and whose second table has a
\* column without a name was answered with the error response.
C27_Witness ==
    /\ pc = "responded"
    /\ schema_json.type = "dict"
    /\ "tables" \in DOMAIN schema_json.fields
    /\ schema_json.fields["tables"].type = "list"
    /\ Len(schema_json.fields["tables"].items) = 2
    /\ ~parse_table(schema_json.fields["tables"].items[1]).raised
    /\ parse_table(schema_json.fields["tables"].items[2]).message
           = <<"Error parsing column ", "0", " in table '", " ", "USERS",
               " ", "': ", "Column must have a 'name' field of type string">>
    /\ resp.status = "error"
    /\ invoked = {}

\* C28: the SQL of a passing gate output, handed to the gate again with the
\* same schema and hint, passes again with the same SQL and status and
\* without a LIMIT-enforced warning; it has the classification of the input
\* and is a single statement.
C28_StableOnOwnOutput ==
    pc = "regated"
        => /\ g_again.passed
           /\ g_again.sql = g_out.sql
           /\ g_again.status = g_out.status
           /\ \A n \in 1..Len(g_again.warnings) :
                  g_again.warnings[n].kind # "limit_enforced"
           /\ classify_statement(g_out.sql) = classify_statement(InputSql)
           /\ ~check_multiple_statements(g_out.sql)

\* C29: on both failing paths, and for every passing statement that is not
\* read-only, the gate returns the SQL it was given, character for
\* character.
C29_SqlUntouchedUnlessLimited ==
    (Gated /\ (~g_out.passed \/ ~is_read_only_statement(InputType)))
        => g_out.sql = InputSql

\* A DELETE with LIMIT 900 and a placeholder token passed, with a schema and
\* the writer's hint, and came back as it was.
C29_Witness ==
    /\ pc = "gated" /\ g_out.passed
    /\ InputType = "DELETE"
    /\ 900 \in LimitValues(InputSql)
    /\ TokensIn(InputSql) # {}
    /\ SchemaGiven /\ WriterHint
    /\ g_out.sql = InputSql

\* C30: a VALIDATED output is a passing SELECT or WITH for which the writer
\* reported no placeholder, whose returned SQL has no placeholder token and
\* no identifier missing from the schema, and whose warnings are none or the
\* LIMIT-enforced warning alone.
C30_ValidatedMeansClean ==
    (Gated /\ g_out.status = "validated")
        => /\ g_out.passed
           /\ InputType \in {"SELECT", "WITH"}
           /\ ~WriterHint
           /\ TokensIn(g_out.sql) = {}
           /\ SchemaIssues(g_out.sql, schema_ctx, InputType) = {<<>>}
           /\ \/ g_out.warnings = <<>>
              \/ g_out.warnings = <<[kind |-> "limit_enforced",
                                    name |-> <<StrOf(max_row_limit)>>]>>

\* A SELECT from a table of the schema was VALIDATED with the LIMIT-enforced
\* warning alone.
C30_Witness ==
    /\ pc = "gated"
    /\ g_out.status = "validated"
    /\ SchemaGiven
    /\ InputSql = <<"SELECT", " ", "*", " ", "FROM", " ", "users">>
    /\ Len(g_out.warnings) = 1

====
